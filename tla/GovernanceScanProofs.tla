------------------------ MODULE GovernanceScanProofs ------------------------
(***************************************************************************)
(* Proofs about GovernanceScan, for any nodes, scale, volatilities, labels *)
(* and scanners.                                                           *)
(***************************************************************************)
EXTENDS GovernanceScan, Induction, TLAPS

(***************************************************************************)
(* Arithmetic.                                                             *)
(***************************************************************************)

\* A part of a quantity, as the scale has it, is no more than the quantity.
LEMMA PartOfWhole ==
    ASSUME NEW q \in Nat, NEW k \in Nat, NEW whole \in Nat \ {0}, k <= whole
    PROVE  (q * k) \div whole \in Nat /\ (q * k) \div whole <= q
<1>1. q * k \in Nat /\ q * whole \in Nat /\ q * k <= q * whole
  OBVIOUS
<1>2. (q * k) \div whole \in Int /\ ((q * k) \div whole) * whole <= q * k
  BY <1>1, Division
<1>3. q * k < ((q * k) \div whole) * whole + whole
  BY <1>1, Division
<1> DEFINE d == (q * k) \div whole
<1>4. d \in Int /\ d * whole <= q * whole /\ 0 < d * whole + whole
  BY <1>1, <1>2, <1>3
<1> HIDE DEF d
<1>5. d <= q
  <2> SUFFICES ASSUME d >= q + 1 PROVE FALSE
    BY <1>4
  <2>1. d * whole >= (q + 1) * whole
    BY <1>4
  <2>2. (q + 1) * whole = q * whole + whole
    OBVIOUS
  <2> QED
    BY <1>1, <1>4, <2>1, <2>2
<1>6. d >= 0
  <2> SUFFICES ASSUME d <= -1 PROVE FALSE
    BY <1>4
  <2>1. d * whole <= (-1) * whole
    BY <1>4
  <2> QED
    BY <1>4, <2>1
<1> QED
  BY <1>4, <1>5, <1>6 DEF d

\* Division by the scale keeps the order.
LEMMA DivisionIsMonotone ==
    ASSUME NEW x \in Nat, NEW y \in Nat, NEW whole \in Nat \ {0}, x <= y
    PROVE  x \div whole <= y \div whole
<1> DEFINE c == x \div whole
           d == y \div whole
<1>1. c \in Int /\ c * whole <= x
  BY Division
<1>2. d \in Int /\ y < d * whole + whole
  BY Division
<1> HIDE DEF c, d
<1>3. c * whole < (d + 1) * whole
  BY <1>1, <1>2
<1>4. c < d + 1
  <2> SUFFICES ASSUME c >= d + 1 PROVE FALSE
    BY <1>1, <1>2
  <2>1. c * whole >= (d + 1) * whole
    BY <1>1, <1>2
  <2> QED
    BY <1>1, <1>2, <1>3, <2>1
<1> QED
  BY <1>1, <1>2, <1>4 DEF c, d

(***************************************************************************)
(* What decay and calibration return.                                      *)
(***************************************************************************)
LEMMA DecayTypes ==
    ASSUME NEW n \in Nodes, NEW age \in Days
    PROVE  DecayedTo(n, age) \in Confidences
<1>1. Source[n] \in Nat /\ Keep[n][age] \in Nat /\ Source[n] <= Scale /\ Keep[n][age] <= Scale
  BY ConfidenceAssumption DEF Days
<1>2. Scale \in Nat \ {0}
  BY ConfidenceAssumption
<1>3. DecayedTo(n, age) \in Nat /\ DecayedTo(n, age) <= Source[n]
  BY <1>1, <1>2, PartOfWhole DEF DecayedTo
<1> QED
  BY <1>1, <1>2, <1>3 DEF Confidences

\* An older row decays to no more.
LEMMA DecayGrows ==
    ASSUME NEW n \in Nodes, NEW d \in Days, NEW e \in Days, d <= e
    PROVE  DecayedTo(n, e) <= DecayedTo(n, d)
<1>1. /\ Source[n] \in Nat
      /\ Keep[n][d] \in Nat /\ Keep[n][e] \in Nat /\ Keep[n][e] <= Keep[n][d]
      /\ Scale \in Nat \ {0}
  BY ConfidenceAssumption DEF Days
<1>2. /\ Source[n] * Keep[n][d] \in Nat
      /\ Source[n] * Keep[n][e] \in Nat
      /\ Source[n] * Keep[n][e] <= Source[n] * Keep[n][d]
  <2> HIDE DEF Days
  <2>1. \A a, b, c \in Nat : b <= c => a * b \in Nat /\ a * b <= a * c
    OBVIOUS
  <2> QED
    BY <1>1, <2>1
<1> QED
  BY <1>1, <1>2, DivisionIsMonotone DEF DecayedTo

LEMMA ClampTypes == \A v : Clamp(v) \in Confidences
<1>1. 0 \in Confidences /\ Scale \in Confidences
  BY ConfidenceAssumption DEF Confidences
<1> QED
  BY <1>1 DEF Clamp

\* Every point of a curve is a confidence, or none.
LEMMA CurveTypes == \A labelled, copy : CurveFor(labelled, copy) \in Curve
<1>1. NoCurve \in Curve
  BY DEF NoCurve, Curve
<1>2. \A pairs : BuildCurve(pairs) \in Curve
  BY ClampTypes DEF BuildCurve, Curve
<1> QED
  BY <1>1, <1>2 DEF CurveFor

\* The ends of a set of confidences bound it.
LEMMA EndsBound ==
    ASSUME NEW S \in SUBSET Confidences, S # {}
    PROVE  /\ Min(S) \in S /\ \A y \in S : Min(S) <= y
           /\ Max(S) \in S /\ \A y \in S : Max(S) >= y
<1>1. S \in SUBSET Nat /\ Scale \in Nat /\ \A x \in S : x <= Scale
  BY ConfidenceAssumption DEF Confidences
<1>2. \E x \in S : \A y \in S : x <= y
  BY <1>1, LeastMember
<1>3. \E x \in S : \A y \in S : x >= y
  <2>1. \E x \in S : \A y \in S : y <= x
    BY <1>1, GreatestMember
  <2> QED
    BY <1>1, <2>1
<1>4. Min(S) \in S /\ \A y \in S : Min(S) <= y
  BY <1>2 DEF Min
<1>5. Max(S) \in S /\ \A y \in S : Max(S) >= y
  BY <1>3 DEF Max
<1> QED
  BY <1>4, <1>5

LEMMA CalibrationTypes ==
    ASSUME NEW c \in Confidences, NEW curve \in Curve
    PROVE  ApplyCalibration(c, curve) \in Confidences
<1> DEFINE xs == Points(curve)
           below == {x \in xs : x <= c}
           above == {x \in xs : x >= c}
<1>1. xs \in SUBSET Confidences /\ \A x \in xs : curve[x] \in Confidences
  BY DEF Points, Curve
<1>2. CASE xs = {}
  BY <1>2 DEF ApplyCalibration
<1>3. CASE xs # {} /\ below = {}
  <2>1. curve[Min(xs)] \in Confidences
    BY <1>1, <1>3, EndsBound
  <2>2. ApplyCalibration(c, curve) \in {curve[Min(xs)], curve[Max(xs)]}
    BY <1>3 DEF ApplyCalibration
  <2>3. curve[Max(xs)] \in Confidences
    BY <1>1, <1>3, EndsBound
  <2> QED
    BY <2>1, <2>2, <2>3
<1>4. CASE xs # {} /\ below # {} /\ above = {}
  <2>1. ApplyCalibration(c, curve) = curve[Max(xs)]
    BY <1>4 DEF ApplyCalibration
  <2>2. curve[Max(xs)] \in Confidences
    BY <1>1, <1>4, EndsBound
  <2> QED
    BY <2>1, <2>2
<1>5. CASE below # {} /\ above # {}
  <2>1. Max(below) \in xs /\ curve[Max(below)] \in Confidences
    BY <1>1, <1>5, EndsBound
  <2>2. ApplyCalibration(c, curve)
        = IF Max(below) = Min(above) THEN curve[Max(below)]
          ELSE Clamp(curve[Max(below)]
                     + ((c - Max(below)) * (curve[Min(above)] - curve[Max(below)]))
                       \div (Min(above) - Max(below)))
    BY <1>5 DEF ApplyCalibration
  <2> QED
    BY <2>1, <2>2, ClampTypes
<1> QED
  BY <1>2, <1>3, <1>4, <1>5

(***************************************************************************)
(* Type correctness.                                                       *)
(***************************************************************************)
Running == [pc : {"decay", "curve", "calibrate", "audit"}, copy : Copy, at : Days,
            curve : Curve]

LEMMA RunningLocals ==
    ASSUME TypeOK, NEW s \in Scanners, scan[s].pc # "idle"
    PROVE  scan[s] \in Running
BY DEF TypeOK, ScanLocals, Idle, Running

LEMMA ScanWrites ==
    ASSUME TypeOK, NEW s \in Scanners, NEW local \in ScanLocals,
           scan' = [scan EXCEPT ![s] = local]
    PROVE  scan' \in [Scanners -> ScanLocals]
BY DEF TypeOK

LEMMA AgeTypes ==
    ASSUME NEW row \in Row, NEW at \in Days
    PROVE  Age(row, at) \in Days
BY ConfidenceAssumption DEF Row, Days, Age

\* The rows a scan writes are rows.
LEMMA ScanRows ==
    ASSUME TypeOK, NEW s \in Scanners, scan[s].pc # "idle", NEW n \in Nodes
    PROVE  DecayedRow(s, n) \in Row /\ CalibratedRow(s, n) \in Row
<1>1. scan[s].copy[n] \in Row /\ scan[s].at \in Days /\ scan[s].curve \in Curve
  BY RunningLocals DEF Running, Copy
<1>2. DecayedRow(s, n) \in Row
  BY <1>1, AgeTypes, DecayTypes DEF DecayedRow, Row
<1>3. scan[s].copy[n].serving \in Confidences
  BY <1>1 DEF Row
<1>4. CalibratedRow(s, n) \in Row
  BY <1>1, <1>3, CalibrationTypes DEF CalibratedRow, Calibration, Row
<1> QED
  BY <1>2, <1>4

LEMMA TypesAtFirst == Init => TypeOK
<1> SUFFICES ASSUME Init PROVE TypeOK
  OBVIOUS
<1>1. 0 \in Days /\ 0 \in 0..MaxScans /\ 0 \in 0..MaxReviews
  BY ConfidenceAssumption, ScanBoundsAssumption DEF Days
<1>2. nodes \in Copy
  BY <1>1, ConfidenceAssumption DEF Init, Copy, Row, Confidences
<1> QED
  BY <1>1, <1>2 DEF Init, TypeOK, ScanLocals, ReviewLocals

LEMMA TypesInductive == TypeOK /\ [Next]_vars => TypeOK'
<1> SUFFICES ASSUME TypeOK, [Next]_vars PROVE TypeOK'
  OBVIOUS
<1>1. CASE UNCHANGED vars
  BY <1>1 DEF vars, TypeOK
<1>2. ASSUME NEW s \in Scanners, ScanRead(s) PROVE TypeOK'
  <2> DEFINE local == [pc |-> "decay", copy |-> nodes, at |-> now, curve |-> NoCurve]
  <2>1. local \in ScanLocals
    BY DEF TypeOK, ScanLocals, NoCurve, Curve
  <2>2. scan' \in [Scanners -> ScanLocals]
    BY <1>2, <2>1, ScanWrites DEF ScanRead
  <2>3. oldest' \in [Nodes -> Days]
    <3>1. \A n \in Nodes : /\ now \in Days /\ nodes[n].updated \in Days /\ oldest[n] \in Days
      BY DEF TypeOK, Copy, Row
    <3>2. \A n \in Nodes : now - nodes[n].updated > oldest[n] => now - nodes[n].updated \in Days
      BY <3>1, ConfidenceAssumption, SMTT(30) DEF Days
    <3> QED
      BY <1>2, <3>1, <3>2 DEF ScanRead
  <2>4. runs' \in 0..MaxScans
    BY <1>2, ScanBoundsAssumption DEF ScanRead, TypeOK
  <2> QED
    BY <1>2, <2>2, <2>3, <2>4 DEF ScanRead, TypeOK
<1>3. ASSUME NEW s \in Scanners, ScanDecay(s) PROVE TypeOK'
  <2>1. scan[s] \in Running /\ \A n \in Nodes : DecayedRow(s, n) \in Row
    BY <1>3, RunningLocals, ScanRows DEF ScanDecay
  <2>2. nodes' \in Copy
    BY <1>3, <2>1 DEF ScanDecay, TypeOK, Copy
  <2>3. scan' \in [Scanners -> ScanLocals]
    BY <1>3, <2>1 DEF ScanDecay, TypeOK, ScanLocals, Running
  <2> QED
    BY <1>3, <2>2, <2>3 DEF ScanDecay, TypeOK
<1>4. ASSUME NEW s \in Scanners, ScanCurve(s) PROVE TypeOK'
  <2>1. scan[s] \in Running /\ CurveFor(labels, scan[s].copy) \in Curve
    BY <1>4, RunningLocals, CurveTypes DEF ScanCurve
  <2>2. scan' \in [Scanners -> ScanLocals]
    BY <1>4, <2>1 DEF ScanCurve, TypeOK, ScanLocals, Running
  <2> QED
    BY <1>4, <2>2 DEF ScanCurve, TypeOK
<1>5. ASSUME NEW s \in Scanners, ScanCalibrate(s) PROVE TypeOK'
  <2>1. /\ scan[s] \in Running
        /\ \A n \in Nodes : DecayedRow(s, n) \in Row /\ CalibratedRow(s, n) \in Row
    BY <1>5, RunningLocals, ScanRows DEF ScanCalibrate
  <2>2. nodes' \in Copy
    <3>1. \A n \in Nodes : nodes'[n] \in {DecayedRow(s, n), CalibratedRow(s, n), nodes[n]}
      BY <1>5 DEF ScanCalibrate
    <3>2. \A n \in Nodes : nodes'[n] \in Row
      BY <2>1, <3>1 DEF TypeOK, Copy
    <3>3. nodes' = [n \in Nodes |-> nodes'[n]]
      BY <1>5 DEF ScanCalibrate
    <3> QED
      BY <3>2, <3>3 DEF Copy
  <2>3. scan' \in [Scanners -> ScanLocals]
    BY <1>5, <2>1 DEF ScanCalibrate, TypeOK, ScanLocals, Running
  <2>4. calibrated' \subseteq Nodes
    BY <1>5 DEF ScanCalibrate, CalibratedIn, TypeOK
  <2> QED
    BY <1>5, <2>2, <2>3, <2>4 DEF ScanCalibrate, TypeOK
<1>6. ASSUME NEW s \in Scanners, ScanAudit(s) \/ ScanFails(s) PROVE TypeOK'
  <2>1. scan' \in [Scanners -> ScanLocals]
    BY <1>6, ScanWrites DEF ScanAudit, ScanFails, ScanLocals
  <2> QED
    BY <1>6, <2>1 DEF ScanAudit, ScanFails, TypeOK
<1>7. ASSUME NEW target \in Nodes \cup {NotANode}, NEW value \in LabelValues,
             RecordFeedback(target, value)
      PROVE  TypeOK'
  <2>1. [target |-> target, value |-> value] \in Label
    BY DEF Label
  <2>2. labels' \in Seq(Label)
    BY <1>7, <2>1 DEF RecordFeedback, TypeOK
  <2> QED
    BY <1>7, <2>2 DEF RecordFeedback, TypeOK
<1>8. ASSUME NEW n \in Canonical, ReviewRead(n) PROVE TypeOK'
  <2>1. n \in Nodes /\ nodes[n] \in Row /\ now \in Days
    BY ConfidenceAssumption DEF TypeOK, Copy
  <2>2. review' \in ReviewLocals
    BY <1>8, <2>1 DEF ReviewRead, ReviewLocals
  <2>3. reviews' \in 0..MaxReviews
    BY <1>8, ScanBoundsAssumption DEF ReviewRead, TypeOK
  <2> QED
    BY <1>8, <2>2, <2>3 DEF ReviewRead, TypeOK
<1>9. CASE ReviewWrite
  <2>1. review.node \in Nodes /\ review.row \in Row /\ review.at \in Days
    BY <1>9 DEF ReviewWrite, TypeOK, ReviewLocals, NoReview
  <2>2. nodes' \in Copy
    BY <1>9, <2>1 DEF ReviewWrite, TypeOK, Copy, Row
  <2> QED
    BY <1>9, <2>2 DEF ReviewWrite, TypeOK, ReviewLocals
<1>10. CASE DayPasses
  <2>1. now' \in Days
    BY <1>10, ConfidenceAssumption DEF DayPasses, TypeOK, Days
  <2> QED
    BY <1>10, <2>1 DEF DayPasses, TypeOK
<1> QED
  BY <1>1, <1>2, <1>3, <1>4, <1>5, <1>6, <1>7, <1>8, <1>9, <1>10 DEF Next, ScanStep

\* No label, curve or age takes a confidence out of [0, 1].
THEOREM TypeCorrect == Spec => []TypeOK
BY TypesAtFirst, TypesInductive, PTL DEF Spec

(***************************************************************************)
(* The floor of decay.  A scan in progress has read no row at an age that  *)
(* oldest does not know, and a review holds a row that is above the floor. *)
(***************************************************************************)
Floor(n) == DecayedTo(n, oldest[n])

FloorInv ==
    \A n \in Nodes \ calibrated :
        /\ nodes[n].serving >= Floor(n)
        /\ \A s \in Scanners :
              scan[s].pc # "idle" => Age(scan[s].copy[n], scan[s].at) <= oldest[n]
        /\ review.pc = "write" /\ review.node = n => review.row.serving >= Floor(n)

LEMMA FloorAtFirst == Init => FloorInv
<1> SUFFICES ASSUME Init, NEW n \in Nodes
             PROVE  /\ nodes[n].serving >= Floor(n)
                    /\ \A s \in Scanners : scan[s].pc = "idle"
                    /\ review.pc # "write"
  BY DEF FloorInv
<1>1. Source[n] \in Nat /\ Keep[n][0] \in Nat /\ Keep[n][0] <= Scale /\ Scale \in Nat \ {0}
  BY ConfidenceAssumption
<1>2. Floor(n) <= Source[n]
  BY <1>1, PartOfWhole DEF Floor, DecayedTo, Init
<1> QED
  BY <1>2 DEF Init, Idle, NoReview

\* The greatest age only grows, and with it the floor comes down.
LEMMA FloorComesDown ==
    ASSUME TypeOK, TypeOK', NEW n \in Nodes, oldest[n] <= oldest'[n]
    PROVE  Floor(n)' <= Floor(n) /\ Floor(n) \in Nat /\ Floor(n)' \in Nat
<1>1. oldest[n] \in Days /\ oldest'[n] \in Days
  BY DEF TypeOK
<1>2. /\ DecayedTo(n, oldest'[n]) <= DecayedTo(n, oldest[n])
      /\ DecayedTo(n, oldest[n]) \in Confidences
      /\ DecayedTo(n, oldest'[n]) \in Confidences
  BY <1>1, DecayGrows, DecayTypes
<1>3. Floor(n)' = DecayedTo(n, oldest'[n])
  BY DEF Floor, DecayedTo
<1> QED
  BY <1>2, <1>3 DEF Floor, Confidences

\* What decay writes is above the floor, whatever was calibrated meanwhile.
LEMMA DecayedAboveFloor ==
    ASSUME TypeOK, FloorInv, NEW s \in Scanners, scan[s].pc # "idle",
           NEW n \in Nodes \ calibrated
    PROVE  DecayedRow(s, n).serving >= Floor(n)
<1>1. scan[s].copy[n] \in Row /\ scan[s].at \in Days
  BY RunningLocals DEF Running, Copy
<1>2. Age(scan[s].copy[n], scan[s].at) \in Days /\ oldest[n] \in Days
  BY <1>1, AgeTypes DEF TypeOK
<1>3. Age(scan[s].copy[n], scan[s].at) <= oldest[n]
  BY DEF FloorInv
<1>4. DecayedTo(n, oldest[n]) <= DecayedTo(n, Age(scan[s].copy[n], scan[s].at))
  BY <1>2, <1>3, DecayGrows
<1>5. /\ DecayedTo(n, oldest[n]) \in Int
      /\ DecayedTo(n, Age(scan[s].copy[n], scan[s].at)) \in Int
  BY <1>2, DecayTypes DEF Confidences
<1> QED
  BY <1>4, <1>5 DEF DecayedRow, Floor

LEMMA FloorInductive ==
    ASSUME TypeOK, TypeOK', FloorInv, [Next]_vars
    PROVE  FloorInv'
<1> USE DEF FloorInv
<1>1. CASE UNCHANGED vars
  BY <1>1 DEF vars, Floor, DecayedTo, Age
<1>2. ASSUME NEW s \in Scanners, ScanRead(s) PROVE FloorInv'
  <2> SUFFICES ASSUME NEW n \in Nodes \ calibrated
               PROVE  /\ nodes'[n].serving >= Floor(n)'
                      /\ \A t \in Scanners :
                            scan'[t].pc # "idle" => Age(scan'[t].copy[n], scan'[t].at) <= oldest'[n]
                      /\ review'.pc = "write" /\ review'.node = n => review'.row.serving >= Floor(n)'
    BY <1>2 DEF ScanRead, Age
  <2>1. /\ nodes[n] \in Row /\ now \in Days
        /\ oldest[n] \in Int /\ now \in Int /\ nodes[n].updated \in Int
        /\ nodes[n].serving \in Int
    BY DEF TypeOK, Copy, Row, Days, Confidences
  <2>2. oldest'[n] = IF now - nodes[n].updated > oldest[n] THEN now - nodes[n].updated
                     ELSE oldest[n]
    BY <1>2 DEF ScanRead
  <2>3. oldest[n] <= oldest'[n] /\ 0 <= oldest'[n] /\ now - nodes[n].updated <= oldest'[n]
    BY <2>1, <2>2 DEF TypeOK, Days
  <2>4. Age(nodes[n], now) <= oldest'[n]
    BY <2>1, <2>3 DEF Age
  <2>5. Floor(n)' <= Floor(n) /\ Floor(n) \in Nat /\ Floor(n)' \in Nat
    BY <2>3, FloorComesDown
  <2>6. nodes'[n].serving >= Floor(n)'
    BY <1>2, <2>1, <2>5 DEF ScanRead
  <2>7. ASSUME NEW t \in Scanners, scan'[t].pc # "idle"
        PROVE  Age(scan'[t].copy[n], scan'[t].at) <= oldest'[n]
    <3>1. CASE t = s
      <4>1. scan'[s] = [pc |-> "decay", copy |-> nodes, at |-> now, curve |-> NoCurve]
        BY <1>2 DEF ScanRead, TypeOK
      <4> QED
        BY <2>4, <3>1, <4>1
    <3>2. CASE t # s
      <4>1. scan'[t] = scan[t]
        BY <1>2, <3>2 DEF ScanRead, TypeOK
      <4>2. scan[t] \in Running
        BY <2>7, <4>1, RunningLocals
      <4>3. Age(scan[t].copy[n], scan[t].at) \in Int
        BY <4>2, AgeTypes DEF Running, Copy, Days
      <4>4. Age(scan[t].copy[n], scan[t].at) <= oldest[n]
        BY <2>7, <4>1
      <4> QED
        BY <2>1, <2>2, <2>3, <4>1, <4>3, <4>4
    <3> QED
      BY <3>1, <3>2
  <2>8. ASSUME review'.pc = "write", review'.node = n PROVE review'.row.serving >= Floor(n)'
    <3>1. review' = review
      BY <1>2 DEF ScanRead
    <3>2. review.row.serving >= Floor(n) /\ review.row.serving \in Int
      BY <2>8, <3>1 DEF TypeOK, ReviewLocals, NoReview, Row, Confidences
    <3> QED
      BY <2>5, <3>1, <3>2
  <2> QED
    BY <2>6, <2>7, <2>8
<1>3. ASSUME NEW s \in Scanners, ScanDecay(s) PROVE FloorInv'
  <2>1. \A n \in Nodes \ calibrated : DecayedRow(s, n).serving >= Floor(n)
    BY <1>3, DecayedAboveFloor DEF ScanDecay
  <2>2. /\ \A n \in Nodes : nodes'[n] \in {DecayedRow(s, n), nodes[n]} /\ Floor(n)' = Floor(n)
        /\ calibrated' = calibrated /\ oldest' = oldest /\ review' = review
    BY <1>3 DEF ScanDecay, Floor, DecayedTo
  <2>3. \A t \in Scanners : /\ scan'[t].pc # "idle" => scan[t].pc # "idle"
                            /\ scan'[t].pc # "idle" => scan'[t].copy = scan[t].copy
                            /\ scan'[t].pc # "idle" => scan'[t].at = scan[t].at
    BY <1>3, RunningLocals DEF ScanDecay, TypeOK, Running
  <2> QED
    BY <2>1, <2>2, <2>3 DEF Age
<1>4. ASSUME NEW s \in Scanners, ScanCurve(s) PROVE FloorInv'
  <2>1. /\ \A n \in Nodes : Floor(n)' = Floor(n)
        /\ nodes' = nodes /\ calibrated' = calibrated /\ oldest' = oldest /\ review' = review
    BY <1>4 DEF ScanCurve, Floor, DecayedTo
  <2>2. \A t \in Scanners : /\ scan'[t].pc # "idle" => scan[t].pc # "idle"
                            /\ scan'[t].pc # "idle" => scan'[t].copy = scan[t].copy
                            /\ scan'[t].pc # "idle" => scan'[t].at = scan[t].at
    BY <1>4, RunningLocals DEF ScanCurve, TypeOK, Running
  <2> QED
    BY <2>1, <2>2 DEF Age
<1>5. ASSUME NEW s \in Scanners, ScanCalibrate(s) PROVE FloorInv'
  <2>1. \A n \in Nodes \ calibrated : DecayedRow(s, n).serving >= Floor(n)
    BY <1>5, DecayedAboveFloor DEF ScanCalibrate
  <2>2. /\ \A n \in Nodes \ calibrated' :
              n \notin calibrated /\ nodes'[n] \in {DecayedRow(s, n), nodes[n]}
        /\ \A n \in Nodes : Floor(n)' = Floor(n)
        /\ oldest' = oldest /\ review' = review
    BY <1>5 DEF ScanCalibrate, Floor, DecayedTo
  <2>3. \A t \in Scanners : /\ scan'[t].pc # "idle" => scan[t].pc # "idle"
                            /\ scan'[t].pc # "idle" => scan'[t].copy = scan[t].copy
                            /\ scan'[t].pc # "idle" => scan'[t].at = scan[t].at
    BY <1>5, RunningLocals DEF ScanCalibrate, TypeOK, Running
  <2> QED
    BY <2>1, <2>2, <2>3 DEF Age
<1>6. ASSUME NEW s \in Scanners, ScanAudit(s) \/ ScanFails(s) PROVE FloorInv'
  <2>1. /\ \A n \in Nodes : Floor(n)' = Floor(n)
        /\ nodes' = nodes /\ calibrated' = calibrated /\ oldest' = oldest /\ review' = review
    BY <1>6 DEF ScanAudit, ScanFails, Floor, DecayedTo
  <2>2. \A t \in Scanners : scan'[t].pc # "idle" => scan'[t] = scan[t]
    BY <1>6 DEF ScanAudit, ScanFails, TypeOK, Idle
  <2> QED
    BY <2>1, <2>2 DEF Age
<1>7. ASSUME NEW target \in Nodes \cup {NotANode}, NEW value \in LabelValues,
             RecordFeedback(target, value)
      PROVE  FloorInv'
  BY <1>7 DEF RecordFeedback, Floor, DecayedTo, Age
<1>8. ASSUME NEW m \in Canonical, ReviewRead(m) PROVE FloorInv'
  <2>1. /\ \A n \in Nodes : Floor(n)' = Floor(n)
        /\ nodes' = nodes /\ calibrated' = calibrated /\ oldest' = oldest /\ scan' = scan
        /\ review' = [pc |-> "write", node |-> m, row |-> nodes[m], at |-> now]
    BY <1>8 DEF ReviewRead, Floor, DecayedTo
  <2> QED
    BY <2>1 DEF Age
<1>9. CASE ReviewWrite
  <2>1. /\ \A n \in Nodes : Floor(n)' = Floor(n)
        /\ calibrated' = calibrated /\ oldest' = oldest /\ scan' = scan
        /\ review'.pc # "write"
    BY <1>9 DEF ReviewWrite, Floor, DecayedTo, NoReview
  <2>2. review.row \in Row /\ review.pc = "write"
    BY <1>9 DEF ReviewWrite, TypeOK, ReviewLocals, NoReview
  <2>3. \A n \in Nodes : nodes'[n].serving = IF n = review.node THEN review.row.serving
                                             ELSE nodes[n].serving
    BY <1>9, <2>2 DEF ReviewWrite, TypeOK, Copy, Row
  <2> QED
    BY <2>1, <2>2, <2>3 DEF Age
<1>10. CASE DayPasses
  BY <1>10 DEF DayPasses, Floor, DecayedTo, Age
<1> QED
  BY <1>1, <1>2, <1>3, <1>4, <1>5, <1>6, <1>7, <1>8, <1>9, <1>10 DEF Next, ScanStep

\* Repeated scans do not compound decay: whatever they, their failures and the reviews
\* write, a node that was never calibrated keeps what one decay of its source_confidence
\* over the longest age seen leaves.
THEOREM DecayIsBounded == Spec => []DecayHasFloor
<1>1. Init => TypeOK /\ FloorInv
  BY TypesAtFirst, FloorAtFirst
<1>2. TypeOK /\ FloorInv /\ [Next]_vars => TypeOK' /\ FloorInv'
  BY TypesInductive, FloorInductive
<1>3. TypeOK /\ FloorInv => DecayHasFloor
  BY DEF FloorInv, Floor, DecayHasFloor
<1> QED
  BY <1>1, <1>2, <1>3, PTL DEF Spec

(***************************************************************************)
(* compute_pava.  Its loop comes to an end, and the blocks it ends with    *)
(* are a partition of the positions whose means do not decrease.           *)
(***************************************************************************)
Pools == Seq(Block) \X Nat
PavaStep(st) ==
    IF ~Exceeds(st[1][st[2]], st[1][st[2] + 1]) THEN <<st[1], st[2] + 1>>
    ELSE <<PoolAt(st[1], st[2]), IF st[2] > 1 THEN st[2] - 1 ELSE st[2]>>

\* What is left to do: every step moves on, or pools two blocks and moves back by one.
LeftToDo == [st \in Pools |-> IF st[2] >= Len(st[1]) THEN 0 ELSE 2 * Len(st[1]) - st[2]]

LEMMA PoolTypes ==
    ASSUME NEW blocks \in Seq(Block), NEW i \in Nat, i < Len(blocks)
    PROVE  PoolAt(blocks, i) \in Seq(Block) /\ Len(PoolAt(blocks, i)) = Len(blocks) - 1
<1>1. Len(blocks) \in Nat /\ Len(blocks) - 1 \in Nat
  OBVIOUS
<1>2. \A j \in 1..(Len(blocks) - 1) : PoolAt(blocks, i)[j] \in Block
  <2>1. TAKE j \in 1..(Len(blocks) - 1)
  <2>2. /\ j \in 1..Len(blocks) /\ j + 1 \in 1..Len(blocks)
        /\ blocks[j] \in Block /\ blocks[j + 1] \in Block
    BY <1>1
  <2>3. CASE j < i
    BY <2>2, <2>3 DEF PoolAt
  <2>4. CASE j = i
    <3>1. [first |-> blocks[i].first, last |-> blocks[i + 1].last,
           sum |-> blocks[i].sum + blocks[i + 1].sum] \in Block
      BY <2>2, <2>4, SMTT(30) DEF Block
    <3> QED
      BY <2>4, <3>1 DEF PoolAt
  <2>5. CASE j > i
    BY <2>2, <2>5 DEF PoolAt
  <2> QED
    BY <2>3, <2>4, <2>5, <1>1
<1>3. PoolAt(blocks, i) = [j \in 1..(Len(blocks) - 1) |-> PoolAt(blocks, i)[j]]
  BY DEF PoolAt
<1> HIDE DEF PoolAt
<1>4. PoolAt(blocks, i) \in [1..(Len(blocks) - 1) -> Block]
  BY <1>2, <1>3
<1> QED
  BY <1>1, <1>4

LEMMA PavaSteps ==
    ASSUME NEW st \in Pools, st[2] < Len(st[1])
    PROVE  PavaStep(st) \in Pools /\ LeftToDo[PavaStep(st)] < LeftToDo[st]
<1> DEFINE blocks == st[1]
           i == st[2]
<1>1. blocks \in Seq(Block) /\ i \in Nat /\ Len(blocks) \in Nat
  BY DEF Pools
<1>2. LeftToDo[st] = 2 * Len(blocks) - i
  BY <1>1 DEF LeftToDo
<1>3. CASE ~Exceeds(blocks[i], blocks[i + 1])
  <2>1. PavaStep(st) = <<blocks, i + 1>> /\ <<blocks, i + 1>> \in Pools
    BY <1>1, <1>3 DEF PavaStep, Pools
  <2>2. LeftToDo[<<blocks, i + 1>>]
          = IF i + 1 >= Len(blocks) THEN 0 ELSE 2 * Len(blocks) - (i + 1)
    BY <2>1 DEF LeftToDo
  <2> QED
    BY <1>1, <1>2, <2>1, <2>2
<1>4. CASE Exceeds(blocks[i], blocks[i + 1])
  <2> DEFINE k == IF i > 1 THEN i - 1 ELSE i
             pooled == PoolAt(blocks, i)
  <2>1. pooled \in Seq(Block) /\ Len(pooled) = Len(blocks) - 1 /\ k \in Nat
    <3>1. i < Len(blocks)
      OBVIOUS
    <3>2. pooled \in Seq(Block) /\ Len(pooled) = Len(blocks) - 1
      BY <1>1, <3>1, PoolTypes
    <3>3. k \in Nat
      BY <1>1
    <3> QED
      BY <3>2, <3>3
  <2>2. PavaStep(st) = <<pooled, k>>
    BY <1>4 DEF PavaStep
  <2>3. <<pooled, k>> \in Pools
    BY <2>1 DEF Pools
  <2>4. LeftToDo[<<pooled, k>>] = IF k >= Len(pooled) THEN 0 ELSE 2 * Len(pooled) - k
    BY <2>3 DEF LeftToDo
  <2>5. k >= i - 1
    BY <1>1
  <2> HIDE DEF k, pooled
  <2> QED
    BY <1>1, <1>2, <2>1, <2>2, <2>3, <2>4, <2>5
<1> QED
  BY <1>3, <1>4

\* So the recursion defines a function.
LEMMA PavaUnfolds ==
    /\ PavaFrom \in [Pools -> Seq(Block)]
    /\ \A st \in Pools :
          PavaFrom[st] = IF st[2] >= Len(st[1]) THEN st[1] ELSE PavaFrom[PavaStep(st)]
<1> DEFINE V == Seq(Block)
           def == [p \in [Pools -> V] \X Pools |->
                     IF p[2][2] >= Len(p[2][1]) THEN p[2][1] ELSE p[1][PavaStep(p[2])]]
<1>1. \A st \in Pools : st[1] \in V /\ st[2] \in Nat /\ Len(st[1]) \in Nat
  BY DEF Pools
<1>2. \A st \in Pools : ~(st[2] >= Len(st[1])) =>
         PavaStep(st) \in Pools /\ LeftToDo[PavaStep(st)] < LeftToDo[st]
  BY <1>1, PavaSteps
<1>3. V # {} /\ LeftToDo \in [Pools -> Nat]
  <2>1. <<>> \in V
    OBVIOUS
  <2>2. \A st \in Pools : (IF st[2] >= Len(st[1]) THEN 0 ELSE 2 * Len(st[1]) - st[2]) \in Nat
    BY <1>1
  <2> QED
    BY <2>1, <2>2 DEF LeftToDo
<1>4. \A g \in [Pools -> V], st \in Pools :
         def[<<g, st>>] = IF st[2] >= Len(st[1]) THEN st[1] ELSE g[PavaStep(st)]
  OBVIOUS
<1>5. def \in [[Pools -> V] \X Pools -> V]
  <2>1. \A g \in [Pools -> V], st \in Pools :
           (IF st[2] >= Len(st[1]) THEN st[1] ELSE g[PavaStep(st)]) \in V
    BY <1>1, <1>2
  <2> QED
    BY <2>1
<1>6. Founded(def, LeftToDo, Pools, V)
  <2> HIDE DEF def
  <2> SUFFICES ASSUME NEW st \in Pools, NEW g \in [Pools -> V], NEW h \in [Pools -> V],
                      \A y \in Below(LeftToDo, st, Pools) : g[y] = h[y]
               PROVE  def[<<g, st>>] = def[<<h, st>>]
    BY DEF Founded
  <2>1. ~(st[2] >= Len(st[1])) => g[PavaStep(st)] = h[PavaStep(st)]
    BY <1>2 DEF Below
  <2> QED
    BY <1>4, <2>1
<1>7. PICK g \in [Pools -> V] : SolvesAll(g, def, Pools)
  <2> HIDE DEF def, V
  <2> QED
    BY <1>3, <1>5, <1>6, RecursionIsDefined
<1>8. \A st \in Pools : g[st] = IF st[2] >= Len(st[1]) THEN st[1] ELSE g[PavaStep(st)]
  BY <1>4, <1>7 DEF SolvesAll
<1> DEFINE Body(f) == [st \in Pools |->
              IF st[2] >= Len(st[1]) THEN st[1]
              ELSE IF ~Exceeds(st[1][st[2]], st[1][st[2] + 1]) THEN f[<<st[1], st[2] + 1>>]
              ELSE f[<<PoolAt(st[1], st[2]), IF st[2] > 1 THEN st[2] - 1 ELSE st[2]>>]]
<1>9. \A f : Body(f) = [st \in Pools |->
                 IF st[2] >= Len(st[1]) THEN st[1] ELSE f[PavaStep(st)]]
  BY DEF PavaStep
<1>10. PavaFrom = CHOOSE f : f = Body(f)
  BY DEF PavaFrom, Pools
<1> HIDE DEF Body
<1>11. g = Body(g)
  BY <1>7, <1>8, <1>9
<1>12. PavaFrom = Body(PavaFrom)
  BY <1>10, <1>11
<1>13. \A st \in Pools :
          PavaFrom[st] = IF st[2] >= Len(st[1]) THEN st[1] ELSE PavaFrom[PavaStep(st)]
  BY <1>9, <1>12
<1>14. PavaFrom \in [Pools -> V]
  <2>1. PavaFrom = [st \in Pools |-> PavaFrom[st]]
    BY <1>9, <1>12
  <2>2. \A st \in Pools : PavaFrom[st] \in V
    <3> DEFINE Bad == {st \in Pools : PavaFrom[st] \notin V}
    <3> SUFFICES ASSUME Bad # {} PROVE FALSE
      OBVIOUS
    <3>1. PICK st \in Bad : \A t \in Bad : LeftToDo[st] <= LeftToDo[t]
      <4>1. Bad \in SUBSET Pools
        OBVIOUS
      <4> HIDE DEF Bad, V
      <4> QED
        BY <1>3, <4>1, LeastMeasure
    <3>2. ~(st[2] >= Len(st[1])) /\ PavaFrom[st] = PavaFrom[PavaStep(st)]
      BY <1>1, <1>13
    <3>3. PavaStep(st) \in Bad
      BY <1>2, <3>2
    <3>4. LeftToDo[PavaStep(st)] < LeftToDo[st] /\ LeftToDo[st] <= LeftToDo[PavaStep(st)]
      BY <1>2, <3>1, <3>2, <3>3
    <3>5. LeftToDo[st] \in Nat /\ LeftToDo[PavaStep(st)] \in Nat
      BY <1>3, <3>3
    <3> QED
      BY <3>4, <3>5
  <2> QED
    BY <2>1, <2>2
<1> QED
  BY <1>13, <1>14

\* The blocks cut 1..n into runs, and up to block i their means do not decrease.
Partition(blocks, n) ==
    /\ blocks \in Seq(Block) /\ Len(blocks) >= 1
    /\ blocks[1].first = 1 /\ blocks[Len(blocks)].last = n
    /\ \A j \in 1..Len(blocks) : blocks[j].first <= blocks[j].last
    /\ \A j \in 1..Len(blocks) : j < Len(blocks) => blocks[j + 1].first = blocks[j].last + 1
InOrderUpTo(blocks, i) ==
    \A j \in 1..Len(blocks) : j < i /\ j < Len(blocks) => ~Exceeds(blocks[j], blocks[j + 1])
PavaInv(st, n) == Partition(st[1], n) /\ st[2] >= 1 /\ InOrderUpTo(st[1], st[2])

\* The blocks that pooling leaves.
LEMMA PoolKeeps ==
    ASSUME NEW blocks \in Seq(Block), NEW n \in Nat, Partition(blocks, n),
           NEW i \in 1..Len(blocks), i < Len(blocks), InOrderUpTo(blocks, i)
    PROVE  /\ Partition(PoolAt(blocks, i), n)
           /\ InOrderUpTo(PoolAt(blocks, i), IF i > 1 THEN i - 1 ELSE i)
<1> DEFINE pooled == PoolAt(blocks, i)
           len == Len(blocks)
<1>1. /\ len \in Nat /\ i \in Nat /\ i >= 1 /\ i < len
      /\ pooled \in Seq(Block) /\ Len(pooled) = len - 1
  BY PoolTypes
<1>2. \A j \in 1..len : blocks[j] \in Block /\ blocks[j].first \in Nat /\ blocks[j].last \in Nat
  <2>1. \A j \in 1..len : blocks[j] \in Block
    OBVIOUS
  <2> HIDE DEF len
  <2> QED
    BY <2>1 DEF Block
<1>3. \A j \in 1..(len - 1) : j < i => pooled[j] = blocks[j]
  BY DEF PoolAt
<1>4. pooled[i].first = blocks[i].first /\ pooled[i].last = blocks[i + 1].last
  BY <1>1 DEF PoolAt
<1>5. \A j \in 1..(len - 1) : j > i => pooled[j] = blocks[j + 1]
  BY <1>1 DEF PoolAt
<1>6. /\ blocks[1].first = 1 /\ blocks[len].last = n
      /\ \A j \in 1..len : blocks[j].first <= blocks[j].last
      /\ \A j \in 1..len : j < len => blocks[j + 1].first = blocks[j].last + 1
  BY DEF Partition
<1>7. InOrderUpTo(blocks, i)
  OBVIOUS
<1> HIDE DEF pooled, len
<1>8. pooled[1].first = 1
  BY <1>1, <1>3, <1>4, <1>6, SMTT(30)
<1>9. pooled[len - 1].last = n
  <2>1. CASE i = len - 1
    BY <1>1, <1>4, <1>6, <2>1
  <2>2. CASE i < len - 1
    BY <1>1, <1>5, <1>6, <2>2
  <2> QED
    BY <1>1, <2>1, <2>2
<1>10. ASSUME NEW j \in 1..(len - 1) PROVE pooled[j].first <= pooled[j].last
  <2>1. CASE j < i
    BY <1>1, <1>3, <1>6, <2>1
  <2>2. CASE j = i
    <3>1. /\ blocks[i].first <= blocks[i].last
          /\ blocks[i + 1].first = blocks[i].last + 1
          /\ blocks[i + 1].first <= blocks[i + 1].last
      BY <1>1, <1>6
    <3>2. i + 1 \in 1..len /\ i \in 1..len
      BY <1>1
    <3> QED
      BY <1>2, <1>4, <2>2, <3>1, <3>2
  <2>3. CASE j > i
    BY <1>1, <1>5, <1>6, <2>3
  <2> QED
    BY <1>1, <2>1, <2>2, <2>3
<1>11. ASSUME NEW j \in 1..(len - 1), j < len - 1
       PROVE  pooled[j + 1].first = pooled[j].last + 1
  <2>1. CASE j + 1 < i
    <3>1. /\ j \in 1..len /\ j < len /\ j < i /\ j + 1 \in 1..(len - 1)
          /\ pooled[j] = blocks[j] /\ pooled[j + 1] = blocks[j + 1]
      BY <1>1, <1>3, <1>11, <2>1
    <3> QED
      BY <1>6, <3>1
  <2>2. CASE j + 1 = i
    <3>1. j < i /\ pooled[j] = blocks[j] /\ blocks[j + 1].first = blocks[j].last + 1
      BY <1>1, <1>3, <1>6, <1>11, <2>2
    <3> QED
      BY <1>4, <2>2, <3>1
  <2>3. CASE j = i
    <3>1. pooled[j + 1] = blocks[i + 2] /\ blocks[i + 2].first = blocks[i + 1].last + 1
      <4>1. j + 1 \in 1..(len - 1) /\ j + 1 > i /\ j + 1 + 1 = i + 2
        BY <1>1, <1>11, <2>3
      <4>2. i + 1 \in 1..len /\ i + 1 < len /\ i + 1 + 1 = i + 2
        BY <1>1, <1>11, <2>3
      <4>3. pooled[j + 1] = blocks[j + 1 + 1]
        BY <1>5, <4>1
      <4>4. blocks[i + 1 + 1].first = blocks[i + 1].last + 1
        BY <1>6, <4>2
      <4> QED
        BY <4>1, <4>2, <4>3, <4>4
    <3> QED
      BY <1>4, <2>3, <3>1
  <2>4. CASE j > i
    <3>1. j + 1 \in 1..(len - 1) /\ j + 1 > i /\ j + 1 \in 1..len /\ j + 1 < len
      BY <1>1, <1>11, <2>4
    <3>2. pooled[j] = blocks[j + 1] /\ pooled[j + 1] = blocks[j + 1 + 1]
      BY <1>5, <2>4, <3>1
    <3>3. blocks[j + 1 + 1].first = blocks[j + 1].last + 1
      BY <1>6, <3>1
    <3> QED
      BY <3>2, <3>3
  <2> QED
    BY <1>1, <2>1, <2>2, <2>3, <2>4
<1>12. Partition(pooled, n)
  BY <1>1, <1>8, <1>9, <1>10, <1>11 DEF Partition
<1>13. InOrderUpTo(pooled, IF i > 1 THEN i - 1 ELSE i)
  <2> SUFFICES ASSUME NEW j \in 1..(len - 1), j < (IF i > 1 THEN i - 1 ELSE i)
               PROVE  ~Exceeds(pooled[j], pooled[j + 1])
    BY <1>1 DEF InOrderUpTo
  <2>1. j < i - 1 /\ j \in 1..len /\ j < i /\ j < len
    BY <1>1
  <2>2. pooled[j] = blocks[j] /\ pooled[j + 1] = blocks[j + 1]
    BY <1>1, <1>3, <2>1
  <2>3. ~Exceeds(blocks[j], blocks[j + 1])
    BY <1>7, <2>1 DEF InOrderUpTo, len
  <2> QED
    BY <2>2, <2>3
<1> QED
  BY <1>12, <1>13 DEF pooled

LEMMA PavaInvInductive ==
    ASSUME NEW st \in Pools, NEW n \in Nat, PavaInv(st, n), st[2] < Len(st[1])
    PROVE  PavaInv(PavaStep(st), n)
<1> DEFINE blocks == st[1]
           i == st[2]
<1>1. /\ blocks \in Seq(Block) /\ i \in Nat /\ Len(blocks) \in Nat
      /\ Partition(blocks, n) /\ i >= 1 /\ InOrderUpTo(blocks, i) /\ i < Len(blocks)
      /\ i \in 1..Len(blocks)
  BY DEF Pools, PavaInv
<1>2. CASE ~Exceeds(blocks[i], blocks[i + 1])
  <2>1. PavaStep(st) = <<blocks, i + 1>>
    BY <1>2 DEF PavaStep
  <2>2. InOrderUpTo(blocks, i + 1)
    <3> SUFFICES ASSUME NEW j \in 1..Len(blocks), j < i + 1, j < Len(blocks)
                 PROVE  ~Exceeds(blocks[j], blocks[j + 1])
      BY DEF InOrderUpTo
    <3>1. CASE j = i
      BY <1>2, <3>1
    <3>2. CASE j < i
      BY <1>1, <3>2 DEF InOrderUpTo
    <3> HIDE DEF i, blocks
    <3> QED
      BY <1>1, <3>1, <3>2
  <2> HIDE DEF i, blocks
  <2>3. PavaInv(<<blocks, i + 1>>, n)
    BY <1>1, <2>2 DEF PavaInv
  <2> QED
    BY <2>1, <2>3
<1>3. CASE Exceeds(blocks[i], blocks[i + 1])
  <2> DEFINE k == IF i > 1 THEN i - 1 ELSE i
  <2>1. PavaStep(st) = <<PoolAt(blocks, i), k>>
    BY <1>3 DEF PavaStep
  <2> HIDE DEF i, blocks
  <2>2. Partition(PoolAt(blocks, i), n) /\ InOrderUpTo(PoolAt(blocks, i), k)
    BY <1>1, PoolKeeps
  <2>3. k >= 1
    BY <1>1
  <2> HIDE DEF k
  <2>4. PavaInv(<<PoolAt(blocks, i), k>>, n)
    BY <2>2, <2>3 DEF PavaInv
  <2> QED
    BY <2>1, <2>4
<1> QED
  BY <1>2, <1>3

\* Where the loop ends, all blocks are in order.
LEMMA PavaEndsInOrder ==
    ASSUME NEW n \in Nat
    PROVE  \A st \in Pools : PavaInv(st, n) =>
              Partition(PavaFrom[st], n) /\ InOrderUpTo(PavaFrom[st], Len(PavaFrom[st]))
<1> DEFINE Right(blocks) == Partition(blocks, n) /\ InOrderUpTo(blocks, Len(blocks))
           Bad == {st \in Pools : PavaInv(st, n) /\ ~Right(PavaFrom[st])}
<1> SUFFICES ASSUME Bad # {} PROVE FALSE
  OBVIOUS
<1>1. LeftToDo \in [Pools -> Nat]
  <2>1. \A st \in Pools : (IF st[2] >= Len(st[1]) THEN 0 ELSE 2 * Len(st[1]) - st[2]) \in Nat
    BY DEF Pools
  <2> QED
    BY <2>1 DEF LeftToDo
<1>2. PICK st \in Bad : \A t \in Bad : LeftToDo[st] <= LeftToDo[t]
  <2>1. Bad \in SUBSET Pools
    OBVIOUS
  <2> HIDE DEF Bad
  <2> QED
    BY <1>1, <2>1, LeastMeasure
<1>3. /\ st \in Pools /\ PavaInv(st, n) /\ ~Right(PavaFrom[st])
      /\ st[1] \in Seq(Block) /\ st[2] \in Nat /\ Len(st[1]) \in Nat
  BY DEF Pools
<1>4. CASE st[2] >= Len(st[1])
  <2>1. PavaFrom[st] = st[1]
    BY <1>3, <1>4, PavaUnfolds
  <2>2. InOrderUpTo(st[1], Len(st[1]))
    <3> SUFFICES ASSUME NEW j \in 1..Len(st[1]), j < Len(st[1])
                 PROVE  ~Exceeds(st[1][j], st[1][j + 1])
      BY DEF InOrderUpTo
    <3>1. j < st[2]
      BY <1>3, <1>4
    <3> QED
      BY <1>3, <3>1 DEF PavaInv, InOrderUpTo
  <2> QED
    BY <1>3, <2>1, <2>2 DEF PavaInv
<1>5. CASE ~(st[2] >= Len(st[1]))
  <2>1. st[2] < Len(st[1])
    BY <1>3, <1>5
  <2>2. PavaStep(st) \in Pools /\ LeftToDo[PavaStep(st)] < LeftToDo[st]
    BY <1>3, <2>1, PavaSteps
  <2>3. PavaInv(PavaStep(st), n)
    BY <1>3, <2>1, PavaInvInductive
  <2>4. PavaFrom[st] = PavaFrom[PavaStep(st)]
    BY <1>3, <1>5, PavaUnfolds
  <2>5. PavaStep(st) \in Bad
    BY <1>3, <2>2, <2>3, <2>4
  <2>6. LeftToDo[st] <= LeftToDo[PavaStep(st)]
    BY <1>2, <2>5
  <2>7. LeftToDo[st] \in Nat /\ LeftToDo[PavaStep(st)] \in Nat
    BY <1>1, <1>3, <2>2
  <2> QED
    BY <2>2, <2>6, <2>7
<1> QED
  BY <1>4, <1>5

\* The mean of a block, rounded down, is no more than that of one it does not exceed.
Mean(b) == b.sum \div Size(b)

LEMMA MeansKeepOrder ==
    ASSUME NEW a \in Block, NEW b \in Block, a.first <= a.last, b.first <= b.last,
           ~Exceeds(a, b)
    PROVE  Mean(a) \in Int /\ Mean(b) \in Int /\ Mean(a) <= Mean(b)
<1>1. PICK u \in Int, v \in Int, k \in Nat \ {0}, l \in Nat \ {0} :
         u = a.sum /\ v = b.sum /\ k = Size(a) /\ l = Size(b)
  BY DEF Block, Size
<1>2. u * l <= v * k
  BY <1>1 DEF Exceeds
<1> DEFINE p == u \div k
           q == v \div l
<1>3. p \in Int /\ p * k <= u
  BY Division
<1>4. q \in Int /\ v < q * l + l
  BY Division
<1>5. Mean(a) = p /\ Mean(b) = q
  BY <1>1 DEF Mean
<1> HIDE DEF p, q
<1>6. p <= q
  <2> SUFFICES ASSUME p >= q + 1 PROVE FALSE
    BY <1>3, <1>4
  <2>1. (p * k) * l <= u * l
    BY <1>3, Products
  <2>2. v * k < (q * l + l) * k
    BY <1>4
  <2>3. (q + 1) * (k * l) <= p * (k * l)
    BY <1>3, <1>4, Products
  <2>4. (q * l + l) * k = (q + 1) * (k * l) /\ (p * k) * l = p * (k * l)
    BY <1>3, <1>4
  <2>5. /\ u * l \in Int /\ v * k \in Int /\ (q + 1) * (k * l) \in Int /\ p * (k * l) \in Int
    BY <1>3, <1>4
  <2> QED
    BY <1>2, <2>1, <2>2, <2>3, <2>4, <2>5
<1> QED
  BY <1>3, <1>4, <1>5, <1>6

\* A list of numbers none of which exceeds the next does not decrease.
LEMMA NeighboursSuffice ==
    ASSUME NEW n \in Nat, NEW f, \A j \in 1..n : f[j] \in Int,
           \A j \in 1..n : j < n => f[j] <= f[j + 1]
    PROVE  \A j, k \in 1..n : j <= k => f[j] <= f[k]
<1> SUFFICES ASSUME NEW j \in 1..n PROVE \A k \in 1..n : j <= k => f[j] <= f[k]
  OBVIOUS
<1> DEFINE Bad == {k \in 1..n : j <= k /\ ~(f[j] <= f[k])}
<1> SUFFICES ASSUME Bad # {} PROVE FALSE
  OBVIOUS
<1>1. PICK k \in Bad : \A l \in Bad : k <= l
  <2>1. Bad \in SUBSET Nat
    OBVIOUS
  <2> HIDE DEF Bad
  <2> QED
    BY <2>1, LeastMember
<1>2. k \in 1..n /\ j <= k /\ ~(f[j] <= f[k])
  OBVIOUS
<1>3. k # j
  BY <1>2
<1>4. k - 1 \in 1..n /\ j <= k - 1 /\ k - 1 < n /\ k - 1 + 1 = k /\ ~(k <= k - 1)
  BY <1>2, <1>3
<1>5. k - 1 \notin Bad
  BY <1>1, <1>4
<1>6. f[j] <= f[k - 1]
  BY <1>4, <1>5
<1>7. f[k - 1] <= f[k]
  BY <1>4
<1> HIDE DEF Bad
<1>8. f[j] \in Int /\ f[k - 1] \in Int /\ f[k] \in Int
  BY <1>2, <1>4
<1> QED
  BY <1>2, <1>6, <1>7, <1>8

\* The fitted values do not decrease.
NotDecreasing(f, n) ==
    \A i, k \in 1..n : f[i] \in Int /\ f[k] \in Int /\ (i <= k => f[i] <= f[k])

LEMMA PartitionCovers ==
    ASSUME NEW n \in Nat, NEW blocks, Partition(blocks, n), NEW i \in 1..n
    PROVE  \E j \in 1..Len(blocks) : i \in blocks[j].first..blocks[j].last
<1> DEFINE len == Len(blocks)
           S == {j \in 1..len : i <= blocks[j].last}
<1>1. blocks \in Seq(Block) /\ len \in Nat /\ len >= 1
  BY DEF Partition
<1>2. \A j \in 1..len : blocks[j] \in Block
  BY <1>1
<1> HIDE DEF len
<1>3. \A j \in 1..len : blocks[j].first \in Nat /\ blocks[j].last \in Nat
  BY <1>2 DEF Block
<1>4. len \in S
  BY <1>1 DEF Partition, len
<1>5. PICK j \in S : \A k \in S : j <= k
  <2>1. S \in SUBSET Nat /\ S # {}
    BY <1>4
  <2> HIDE DEF S
  <2> QED
    BY <2>1, LeastMember
<1>6. j \in 1..len /\ i <= blocks[j].last
  OBVIOUS
<1>7. blocks[j].first <= i
  <2>1. CASE j = 1
    BY <2>1 DEF Partition
  <2>2. CASE j # 1
    <3>1. j - 1 \in 1..len /\ j - 1 < len /\ j - 1 + 1 = j /\ ~(j <= j - 1)
      BY <1>1, <1>6, <2>2
    <3>2. j - 1 \notin S
      BY <1>5, <3>1
    <3>3. blocks[j - 1].last < i
      BY <1>3, <3>1, <3>2
    <3>4. blocks[j - 1 + 1].first = blocks[j - 1].last + 1
      BY <3>1 DEF Partition, len
    <3>5. blocks[j].first = blocks[j - 1].last + 1
      BY <3>1, <3>4
    <3> HIDE DEF S
    <3> QED
      BY <1>3, <1>6, <3>1, <3>3, <3>5
  <2> QED
    BY <2>1, <2>2
<1> QED
  BY <1>3, <1>6, <1>7 DEF len

\* Blocks are apart, and in the order of the positions.
LEMMA PartitionAscends ==
    ASSUME NEW n \in Nat, NEW blocks, Partition(blocks, n),
           NEW j \in 1..Len(blocks), NEW k \in 1..Len(blocks), j < k
    PROVE  blocks[j].last < blocks[k].first
<1> DEFINE len == Len(blocks)
           f == [m \in 1..len |-> blocks[m].first]
<1>1. blocks \in Seq(Block) /\ len \in Nat
  BY DEF Partition
<1>2. \A m \in 1..len : blocks[m] \in Block
  BY <1>1
<1>3. /\ \A m \in 1..len : blocks[m].first <= blocks[m].last
      /\ \A m \in 1..len : m < len => blocks[m + 1].first = blocks[m].last + 1
      /\ j \in 1..len /\ k \in 1..len
  BY DEF Partition
<1> HIDE DEF len
<1>4. \A m \in 1..len : blocks[m].first \in Nat /\ blocks[m].last \in Nat
  BY <1>2 DEF Block
<1>5. \A m \in 1..len : f[m] = blocks[m].first /\ f[m] \in Int
  BY <1>4
<1>6. \A m \in 1..len : m < len => f[m] <= f[m + 1]
  <2> SUFFICES ASSUME NEW m \in 1..len, m < len PROVE f[m] <= f[m + 1]
    OBVIOUS
  <2>1. m + 1 \in 1..len
    BY <1>1
  <2>2. f[m + 1] = blocks[m].last + 1 /\ f[m] = blocks[m].first
    BY <1>3, <2>1
  <2> QED
    BY <1>3, <1>4, <2>2
<1>7. \A l, m \in 1..len : l <= m => f[l] <= f[m]
  <2> HIDE DEF f
  <2> QED
    BY <1>1, <1>5, <1>6, NeighboursSuffice
<1>8. j + 1 \in 1..len /\ j + 1 <= k /\ j < len
  BY <1>1, <1>3
<1>9. f[j + 1] <= f[k] /\ blocks[j + 1].first = blocks[j].last + 1
  BY <1>3, <1>7, <1>8
<1>10. blocks[j].last + 1 <= blocks[k].first
  BY <1>3, <1>5, <1>8, <1>9
<1> QED
  BY <1>3, <1>4, <1>10

LEMMA PavaFits ==
    ASSUME NEW values, NEW n \in Nat \ {0}, values \in [1..n -> Int]
    PROVE  NotDecreasing(Pava(values), n)
<1> DEFINE blocks == PavaFrom[<<Alone(values), 1>>]
           len == Len(blocks)
<1>1. Alone(values) \in Seq(Block) /\ Len(Alone(values)) = n
  <2>1. Alone(values) = [i \in 1..n |-> [first |-> i, last |-> i, sum |-> values[i]]]
    BY DEF Alone
  <2>2. \A i \in 1..n : [first |-> i, last |-> i, sum |-> values[i]] \in Block
    BY DEF Block
  <2>3. Alone(values) \in [1..n -> Block]
    BY <2>1, <2>2
  <2> QED
    BY <2>3
<1>2. <<Alone(values), 1>> \in Pools
  BY <1>1 DEF Pools
<1>3. PavaInv(<<Alone(values), 1>>, n)
  <2>1. \A i \in 1..n : Alone(values)[i] = [first |-> i, last |-> i, sum |-> values[i]]
    BY DEF Alone
  <2>2. Partition(Alone(values), n)
    BY <1>1, <2>1 DEF Partition
  <2>3. InOrderUpTo(Alone(values), 1)
    BY DEF InOrderUpTo
  <2> QED
    BY <2>2, <2>3 DEF PavaInv
<1>4. Partition(blocks, n) /\ InOrderUpTo(blocks, len)
  <2> HIDE DEF Pools, PavaInv
  <2> QED
    BY <1>2, <1>3, PavaEndsInOrder
<1>5. \A i \in 1..n : Pava(values)[i] = MeanIn(blocks, i)
  BY DEF Pava
<1> HIDE DEF blocks
<1>6. blocks \in Seq(Block) /\ len \in Nat /\ DOMAIN blocks = 1..len
  BY <1>4 DEF Partition
<1> DEFINE f == [j \in 1..len |-> Mean(blocks[j])]
<1>7. \A j \in 1..len : blocks[j] \in Block /\ blocks[j].first <= blocks[j].last
  BY <1>4, <1>6 DEF Partition
<1>8. \A j \in 1..len : ~Exceeds(blocks[j], blocks[j])
  <2> SUFFICES ASSUME NEW j \in 1..len PROVE ~Exceeds(blocks[j], blocks[j])
    OBVIOUS
  <2>1. blocks[j].sum \in Int /\ Size(blocks[j]) \in Int
    BY <1>7 DEF Block, Size
  <2> QED
    BY <2>1 DEF Exceeds
<1>9. \A j \in 1..len : f[j] = Mean(blocks[j]) /\ f[j] \in Int
  BY <1>7, <1>8, MeansKeepOrder
<1>10. \A j \in 1..len : j < len => f[j] <= f[j + 1]
  <2> SUFFICES ASSUME NEW j \in 1..len, j < len PROVE f[j] <= f[j + 1]
    OBVIOUS
  <2>1. j + 1 \in 1..len
    BY <1>6
  <2>2. ~Exceeds(blocks[j], blocks[j + 1])
    BY <1>4 DEF InOrderUpTo
  <2>3. Mean(blocks[j]) <= Mean(blocks[j + 1])
    BY <1>7, <2>1, <2>2, MeansKeepOrder
  <2> QED
    BY <2>1, <2>3
<1>11. \A j, k \in 1..len : j <= k => f[j] <= f[k]
  <2> HIDE DEF f, len
  <2> QED
    BY <1>6, <1>9, <1>10, NeighboursSuffice
<1>12. ASSUME NEW i \in 1..n
       PROVE  \E j \in 1..len : i \in blocks[j].first..blocks[j].last /\ MeanIn(blocks, i) = f[j]
  <2>1. \E j \in 1..len : i \in blocks[j].first..blocks[j].last
    BY <1>4, PartitionCovers
  <2> DEFINE b == CHOOSE b \in {blocks[j] : j \in DOMAIN blocks} : i \in b.first..b.last
  <2>2. \E c \in {blocks[j] : j \in DOMAIN blocks} : i \in c.first..c.last
    BY <1>6, <2>1
  <2>3. b \in {blocks[j] : j \in DOMAIN blocks} /\ i \in b.first..b.last
    BY <2>2
  <2>4. MeanIn(blocks, i) = Mean(b)
    BY DEF MeanIn, Mean
  <2> HIDE DEF b
  <2>5. PICK j \in 1..len : b = blocks[j]
    BY <1>6, <2>3
  <2> QED
    BY <1>9, <2>3, <2>4, <2>5
<1> HIDE DEF f, len
<1>13. ASSUME NEW i \in 1..n, NEW k \in 1..n, i <= k
       PROVE  MeanIn(blocks, i) \in Int /\ MeanIn(blocks, k) \in Int
              /\ MeanIn(blocks, i) <= MeanIn(blocks, k)
  <2>1. PICK j \in 1..len : i \in blocks[j].first..blocks[j].last /\ MeanIn(blocks, i) = f[j]
    BY <1>12
  <2>2. PICK l \in 1..len : k \in blocks[l].first..blocks[l].last /\ MeanIn(blocks, k) = f[l]
    BY <1>12
  <2>3. j <= l
    <3> SUFFICES ASSUME l < j PROVE FALSE
      BY <1>6
    <3>1. blocks[l].last < blocks[j].first
      BY <1>4, PartitionAscends DEF len
    <3>2. /\ blocks[j].first \in Nat /\ blocks[j].last \in Nat
          /\ blocks[l].first \in Nat /\ blocks[l].last \in Nat
      BY <1>7 DEF Block
    <3> QED
      BY <1>13, <2>1, <2>2, <3>1, <3>2, SMTT(30)
  <2> QED
    BY <1>9, <1>11, <2>1, <2>2, <2>3
<1>14. ASSUME NEW i \in 1..n, NEW k \in 1..n
       PROVE  /\ Pava(values)[i] \in Int /\ Pava(values)[k] \in Int
              /\ i <= k => Pava(values)[i] <= Pava(values)[k]
  BY <1>5, <1>13
<1> QED
  BY <1>14 DEF NotDecreasing

(***************************************************************************)
(* The curve.                                                              *)
(***************************************************************************)
Pair == [predicted : Confidences, actual : Int]

LEMMA PairTypes ==
    ASSUME NEW labelled \in Seq(Label), NEW copy \in Copy
    PROVE  Pairs(labelled, copy) \in Seq(Pair)
<1> DEFINE K == {i \in DOMAIN labelled : labelled[i].target \in Nodes}
           known == Picked(labelled, K)
<1>1. Len(labelled) \in Nat /\ DOMAIN labelled = 1..Len(labelled) /\ K \in SUBSET (1..Len(labelled))
  OBVIOUS
<1> DEFINE n == Len(labelled)
<1> HIDE DEF K, n
<1>2. PICK position \in Seq(K) :
         /\ Sorts(position, K, Ascending(K))
         /\ \A j, k \in DOMAIN position : j < k => position[j] < position[k]
         /\ known = [k \in DOMAIN position |-> labelled[position[k]]]
  <2>1. n \in Nat /\ K \in SUBSET (1..n)
    BY <1>1 DEF n
  <2>2. \E position \in Seq(K) : PicksAt(position, labelled, K)
    BY <2>1, PickedKeepsOrder
  <2> QED
    BY <2>2 DEF PicksAt
<1>3. Pairs(labelled, copy)
        = [i \in DOMAIN known |->
             [predicted |-> copy[known[i].target].serving, actual |-> known[i].value]]
  BY DEF Pairs, K
<1> HIDE DEF known
<1>4. Len(position) \in Nat /\ DOMAIN position = 1..Len(position)
      /\ \A k \in 1..Len(position) : position[k] \in K
  BY <1>2
<1>5. \A i \in 1..Len(position) :
         [predicted |-> copy[known[i].target].serving, actual |-> known[i].value] \in Pair
  <2> SUFFICES ASSUME NEW i \in 1..Len(position)
               PROVE  [predicted |-> copy[known[i].target].serving,
                       actual |-> known[i].value] \in Pair
    OBVIOUS
  <2>1. known[i] = labelled[position[i]] /\ position[i] \in K
    BY <1>2, <1>4
  <2>2. known[i] \in Label /\ known[i].target \in Nodes
    BY <1>1, <2>1 DEF K
  <2>3. copy[known[i].target].serving \in Confidences
    BY <2>2 DEF Copy, Row
  <2>4. known[i].value \in Int
    BY <2>2, ConfidenceAssumption DEF Label
  <2> QED
    BY <2>3, <2>4 DEF Pair
<1>6. DOMAIN known = 1..Len(position)
  BY <1>2, <1>4
<1>7. Pairs(labelled, copy) \in [1..Len(position) -> Pair]
  BY <1>3, <1>5, <1>6
<1> QED
  BY <1>4, <1>7

\* Sorting keeps the number of pairs, and puts no prediction before a lower one.
LEMMA PairsAreSorted ==
    ASSUME NEW pairs \in Seq(Pair)
    PROVE  /\ SortedPairs(pairs) \in Seq(Pair)
           /\ Len(SortedPairs(pairs)) = Len(pairs)
           /\ \A j, k \in DOMAIN SortedPairs(pairs) :
                 j <= k => SortedPairs(pairs)[j].predicted <= SortedPairs(pairs)[k].predicted
<1> DEFINE n == Len(pairs)
           K == DOMAIN pairs
           R == {p \in K \X K : Precedes(pairs, p[1], p[2])}
           position == Arranged(K, R)
<1>1. n \in Nat /\ K = 1..n
  OBVIOUS
<1>2. IsFiniteSet(K) /\ Cardinality(K) = n
  <2>1. 1 \in Int /\ n \in Int
    OBVIOUS
  <2>2. IsFiniteSet(1..n) /\ Cardinality(1..n) = IF 1 > n THEN 0 ELSE n - 1 + 1
    BY <2>1, FS_Interval
  <2> QED
    BY <1>1, <2>2
<1>3. \A k \in K : pairs[k] \in Pair /\ pairs[k].predicted \in Int /\ k \in Int
  <2>1. \A k \in K : pairs[k] \in Pair /\ k \in Int
    OBVIOUS
  <2>2. \A p \in Pair : p.predicted \in Int
    BY DEF Pair, Confidences
  <2> QED
    BY <2>1, <2>2
<1>4. \A i, j \in K : <<i, j>> \in R <=> Precedes(pairs, i, j)
  OBVIOUS
<1>5. SortedPairs(pairs) = [k \in DOMAIN position |-> pairs[position[k]]]
  BY DEF SortedPairs
<1>6. Orders(R, K)
  <2> HIDE DEF R, K
  <2> QED
    BY <1>3, <1>4, SMTT(30) DEF Orders, Precedes
<1>7. Sorts(position, K, R)
  <2> HIDE DEF R, K
  <2> QED
    BY <1>2, <1>6, ArrangedSorts
<1> HIDE DEF position
<1>8. /\ position \in Seq(K) /\ Len(position) = n /\ DOMAIN position = 1..n
      /\ \A k \in 1..n : position[k] \in K
      /\ \A j, k \in 1..n : j < k => Precedes(pairs, position[j], position[k])
  <2>1. position \in Seq(K) /\ Len(position) = n
    BY <1>2, <1>7 DEF Sorts
  <2>2. DOMAIN position = 1..n /\ \A k \in 1..n : position[k] \in K
    BY <2>1
  <2>3. \A j, k \in 1..n : j < k => <<position[j], position[k]>> \in R
    BY <1>7, <2>2 DEF Sorts
  <2> QED
    BY <1>4, <2>1, <2>2, <2>3
<1> DEFINE sorted == SortedPairs(pairs)
<1>9. sorted \in [1..n -> Pair]
  BY <1>3, <1>5, <1>8
<1>10. ASSUME NEW j \in 1..n, NEW k \in 1..n, j <= k
       PROVE  sorted[j].predicted <= sorted[k].predicted
  <2>1. sorted[j] = pairs[position[j]] /\ sorted[k] = pairs[position[k]]
    BY <1>5, <1>8
  <2>2. sorted[j].predicted \in Int
    BY <1>3, <1>8, <2>1
  <2>3. CASE j = k
    BY <2>2, <2>3
  <2>4. CASE j < k
    <3>1. Precedes(pairs, position[j], position[k])
      BY <1>8, <2>4
    <3>2. \/ sorted[j].predicted < sorted[k].predicted
          \/ sorted[j].predicted = sorted[k].predicted
      BY <2>1, <3>1 DEF Precedes
    <3>3. sorted[k].predicted \in Int
      BY <1>3, <1>8, <2>1
    <3> QED
      BY <2>2, <3>2, <3>3
  <2> QED
    BY <1>1, <1>10, <2>3, <2>4
<1> HIDE DEF sorted
<1>11. DOMAIN sorted = 1..n /\ sorted \in Seq(Pair) /\ Len(sorted) = n
  BY <1>1, <1>9
<1> QED
  BY <1>10, <1>11 DEF sorted

LEMMA ClampKeepsOrder ==
    ASSUME NEW x \in Int, NEW y \in Int, x <= y
    PROVE  Clamp(x) <= Clamp(y)
BY ConfidenceAssumption DEF Clamp, Confidences

\* A curve that never turns the order of its points around.
Monotone(curve) ==
    \A x, y \in Points(curve) : x <= y => curve[x] <= curve[y]

LEMMA CurveIsMonotone ==
    ASSUME NEW labelled \in Seq(Label), NEW copy \in Copy
    PROVE  Monotone(CurveFor(labelled, copy))
<1> DEFINE pairs == Pairs(labelled, copy)
           curve == BuildCurve(pairs)
<1>1. pairs \in Seq(Pair)
  BY PairTypes
<1> HIDE DEF pairs
<1>2. CASE Len(pairs) < MinPairs
  <2>1. CurveFor(labelled, copy) = NoCurve
    BY <1>2 DEF CurveFor, pairs
  <2>2. Points(NoCurve) = {}
    BY DEF Points, NoCurve
  <2> QED
    BY <2>1, <2>2 DEF Monotone
<1>3. CASE ~(Len(pairs) < MinPairs)
  <2>1. CurveFor(labelled, copy) = curve
    BY <1>3 DEF CurveFor, pairs
  <2> DEFINE sorted == SortedPairs(pairs)
             n == Len(pairs)
             values == [k \in DOMAIN sorted |-> sorted[k].actual]
             fitted == Pava(values)
             FirstOf(x) == Min({k \in DOMAIN sorted : sorted[k].predicted = x})
             predictions == {sorted[k].predicted : k \in DOMAIN sorted}
  <2>2. n \in Nat \ {0} /\ sorted \in Seq(Pair) /\ DOMAIN sorted = 1..n
    BY <1>1, <1>3, PairsAreSorted DEF MinPairs
  <2>3. \A j, k \in 1..n : j <= k => sorted[j].predicted <= sorted[k].predicted
    BY <1>1, <2>2, PairsAreSorted
  <2>4. curve = [x \in Confidences |->
                   IF x \in predictions THEN Clamp(fitted[FirstOf(x)]) ELSE NoPoint]
    BY DEF BuildCurve
  <2> HIDE DEF n, sorted, curve
  <2>5. \A k \in 1..n : /\ sorted[k] \in Pair /\ sorted[k].actual \in Int
                        /\ sorted[k].predicted \in Confidences /\ sorted[k].predicted \in Int
    <3>1. \A k \in 1..n : sorted[k] \in Pair
      BY <2>2
    <3> QED
      BY <3>1 DEF Pair, Confidences
  <2>6. values \in [1..n -> Int]
    BY <2>2, <2>5
  <2>7. NotDecreasing(fitted, n)
    <3> HIDE DEF values
    <3> QED
      BY <2>2, <2>6, PavaFits
  <2> HIDE DEF fitted
  <2>8. \A x \in predictions : FirstOf(x) \in 1..n /\ sorted[FirstOf(x)].predicted = x
    <3> SUFFICES ASSUME NEW x \in predictions
                 PROVE  FirstOf(x) \in 1..n /\ sorted[FirstOf(x)].predicted = x
      OBVIOUS
    <3> DEFINE T == {k \in DOMAIN sorted : sorted[k].predicted = x}
    <3>1. T \in SUBSET Nat /\ T # {}
      BY <2>2
    <3>2. \E k \in T : \A l \in T : k <= l
      <4> HIDE DEF T
      <4> QED
        BY <3>1, LeastMember
    <3>3. Min(T) \in T
      BY <3>2 DEF Min
    <3>4. FirstOf(x) = Min(T)
      OBVIOUS
    <3> HIDE DEF FirstOf
    <3> QED
      BY <2>2, <3>3, <3>4
  <2>9. \A x \in Points(curve) : x \in predictions /\ curve[x] = Clamp(fitted[FirstOf(x)])
    <3> HIDE DEF FirstOf, predictions
    <3> QED
      BY <2>4 DEF Points
  <2> HIDE DEF FirstOf, predictions
  <2>10. ASSUME NEW x \in Points(curve), NEW y \in Points(curve), x <= y
         PROVE  curve[x] <= curve[y]
    <3>1. /\ FirstOf(x) \in 1..n /\ sorted[FirstOf(x)].predicted = x
          /\ FirstOf(y) \in 1..n /\ sorted[FirstOf(y)].predicted = y
      BY <2>8, <2>9
    <3>2. x \in Int /\ y \in Int
      BY <2>5, <3>1
    <3>3. CASE x = y
      <4>1. curve[x] \in Confidences
        BY <2>9, ClampTypes
      <4> QED
        BY <3>3, <4>1 DEF Confidences
    <3>4. CASE x # y
      <4>1. FirstOf(x) <= FirstOf(y)
        <5> SUFFICES ASSUME FirstOf(y) <= FirstOf(x) PROVE FALSE
          BY <3>1
        <5>1. y <= x
          BY <2>3, <3>1
        <5> QED
          BY <2>10, <3>2, <3>4, <5>1
      <4>2. /\ fitted[FirstOf(x)] \in Int /\ fitted[FirstOf(y)] \in Int
            /\ fitted[FirstOf(x)] <= fitted[FirstOf(y)]
        BY <2>7, <3>1, <4>1 DEF NotDecreasing
      <4>3. Clamp(fitted[FirstOf(x)]) <= Clamp(fitted[FirstOf(y)])
        BY <4>2, ClampKeepsOrder
      <4> QED
        BY <2>9, <4>3
    <3> QED
      BY <3>3, <3>4
  <2> QED
    BY <2>1, <2>10 DEF Monotone
<1> QED
  BY <1>2, <1>3

(***************************************************************************)
(* Calibration through such a curve.                                       *)
(***************************************************************************)
Under(c, curve) == {x \in Points(curve) : x <= c}
Over(c, curve) == {x \in Points(curve) : x >= c}

\* Between two points, the value is between theirs.
LEMMA Interpolation ==
    ASSUME NEW x0 \in Confidences, NEW x1 \in Confidences, NEW c \in Confidences,
           x0 < x1, x0 <= c, c <= x1,
           NEW y0 \in Confidences, NEW y1 \in Confidences, y0 <= y1
    PROVE  LET y == y0 + ((c - x0) * (y1 - y0)) \div (x1 - x0)
           IN  /\ y \in Confidences /\ y0 <= y /\ y <= y1
               /\ Clamp(y) = y
<1>1. PICK a \in Nat, h \in Nat, w \in Nat \ {0} :
         a = c - x0 /\ h = y1 - y0 /\ w = x1 - x0 /\ a <= w
  <2>1. c - x0 \in Nat /\ y1 - y0 \in Nat /\ x1 - x0 \in Nat \ {0} /\ c - x0 <= x1 - x0
    BY DEF Confidences
  <2> QED
    BY <2>1
<1>2. (h * a) \div w \in Nat /\ (h * a) \div w <= h
  BY <1>1, PartOfWhole
<1>3. a * h = h * a
  BY <1>1
<1> DEFINE q == ((c - x0) * (y1 - y0)) \div (x1 - x0)
<1>4. q \in Nat /\ q <= h
  BY <1>1, <1>2, <1>3
<1> HIDE DEF q
<1>5. y0 + q \in Confidences /\ y0 <= y0 + q /\ y0 + q <= y1
  BY <1>1, <1>4, ConfidenceAssumption DEF Confidences
<1>6. Clamp(y0 + q) = y0 + q
  BY <1>5 DEF Clamp
<1> QED
  BY <1>5, <1>6 DEF q

\* What ApplyCalibration returns, with and without points on each side.
LEMMA CalibrationCases ==
    ASSUME NEW c \in Confidences, NEW curve \in Curve
    PROVE  /\ \A x \in Points(curve) : x \in Confidences /\ curve[x] \in Confidences
           /\ Points(curve) = {} => ApplyCalibration(c, curve) = c
           /\ Points(curve) # {} /\ Under(c, curve) = {} =>
                 ApplyCalibration(c, curve) = curve[Min(Points(curve))]
           /\ Points(curve) # {} /\ Under(c, curve) # {} /\ Over(c, curve) = {} =>
                 ApplyCalibration(c, curve) = curve[Max(Points(curve))]
           /\ Under(c, curve) # {} /\ Over(c, curve) # {} =>
                 LET x0 == Max(Under(c, curve))
                     x1 == Min(Over(c, curve))
                 IN  ApplyCalibration(c, curve)
                       = IF x0 = x1 THEN curve[x0]
                         ELSE Clamp(curve[x0]
                                    + ((c - x0) * (curve[x1] - curve[x0])) \div (x1 - x0))
<1>1. \A x \in Points(curve) : x \in Confidences /\ curve[x] \in Confidences
  BY DEF Points, Curve
<1>2. /\ {x \in Points(curve) : x <= c} = Under(c, curve)
      /\ {x \in Points(curve) : x >= c} = Over(c, curve)
  BY DEF Under, Over
<1>3. Under(c, curve) # {} => Points(curve) # {}
  BY DEF Under
<1>4. Points(curve) # {} => Under(c, curve) # {} \/ Over(c, curve) # {}
  <2> SUFFICES ASSUME NEW x \in Points(curve) PROVE Under(c, curve) # {} \/ Over(c, curve) # {}
    OBVIOUS
  <2>1. x <= c \/ x >= c
    BY <1>1 DEF Confidences
  <2> QED
    BY <2>1 DEF Under, Over
<1>5. Points(curve) = {} => ApplyCalibration(c, curve) = c
  BY <1>2, <1>3 DEF ApplyCalibration, Under, Over
<1>6. Points(curve) # {} /\ Under(c, curve) = {} =>
         ApplyCalibration(c, curve) = curve[Min(Points(curve))]
  BY <1>2, <1>4 DEF ApplyCalibration
<1>7. Points(curve) # {} /\ Under(c, curve) # {} /\ Over(c, curve) = {} =>
         ApplyCalibration(c, curve) = curve[Max(Points(curve))]
  BY <1>2 DEF ApplyCalibration
<1>8. Under(c, curve) # {} /\ Over(c, curve) # {} =>
         LET x0 == Max(Under(c, curve))
             x1 == Min(Over(c, curve))
         IN  ApplyCalibration(c, curve)
               = IF x0 = x1 THEN curve[x0]
                 ELSE Clamp(curve[x0]
                            + ((c - x0) * (curve[x1] - curve[x0])) \div (x1 - x0))
  BY <1>2, <1>3 DEF ApplyCalibration
<1> QED
  BY <1>1, <1>5, <1>6, <1>7, <1>8

\* A confidence at most a point's is not mapped above the point, and one at least a
\* point's not below it.
LEMMA PointsBound ==
    ASSUME NEW c \in Confidences, NEW curve \in Curve, Monotone(curve),
           NEW x \in Points(curve)
    PROVE  /\ c <= x => ApplyCalibration(c, curve) <= curve[x]
           /\ x <= c => curve[x] <= ApplyCalibration(c, curve)
<1> DEFINE xs == Points(curve)
           under == Under(c, curve)
           over == Over(c, curve)
           low == Max(under)
           high == Min(over)
<1>1. xs \in SUBSET Confidences /\ xs # {} /\ \A y \in xs : curve[y] \in Confidences
  BY CalibrationCases
<1>2. under \in SUBSET Confidences /\ under \subseteq xs /\ \A y \in under : y <= c
  BY <1>1 DEF Under
<1>3. over \in SUBSET Confidences /\ over \subseteq xs /\ \A y \in over : y >= c
  BY <1>1 DEF Over
<1>4. \A y, z \in xs : y <= z => curve[y] <= curve[z]
  BY DEF Monotone
<1>5. CASE under = {}
  <2>1. ApplyCalibration(c, curve) = curve[Min(xs)]
    BY <1>1, <1>5, CalibrationCases
  <2>2. Min(xs) \in xs /\ Min(xs) <= x
    BY <1>1, EndsBound
  <2>3. ~(x <= c)
    BY <1>5 DEF Under
  <2> QED
    BY <1>4, <2>1, <2>2, <2>3
<1>6. CASE under # {} /\ over = {}
  <2>1. ApplyCalibration(c, curve) = curve[Max(xs)]
    BY <1>1, <1>6, CalibrationCases
  <2>2. Max(xs) \in xs /\ Max(xs) >= x
    BY <1>1, EndsBound
  <2>3. x <= Max(xs)
    BY <1>1, <2>2 DEF Confidences
  <2>4. ~(x >= c)
    BY <1>6 DEF Over
  <2>5. ~(c <= x)
    BY <1>1, <2>4 DEF Confidences
  <2> QED
    BY <1>4, <2>1, <2>2, <2>3, <2>5
<1>7. CASE under # {} /\ over # {}
  <2>1. /\ low \in under /\ \A y \in under : low >= y
        /\ high \in over /\ \A y \in over : high <= y
    BY <1>2, <1>3, <1>7, EndsBound
  <2>2. ApplyCalibration(c, curve)
          = IF low = high THEN curve[low]
            ELSE Clamp(curve[low]
                       + ((c - low) * (curve[high] - curve[low])) \div (high - low))
    BY <1>7, CalibrationCases
  <2> HIDE DEF low, high
  <2>3. /\ low \in Confidences /\ high \in Confidences /\ low \in xs /\ high \in xs
        /\ low <= c /\ c <= high /\ low <= high
        /\ curve[low] \in Confidences /\ curve[high] \in Confidences
    <3>1. low \in Confidences /\ high \in Confidences /\ low \in xs /\ high \in xs
      BY <1>2, <1>3, <2>1
    <3>2. low <= c /\ high >= c
      BY <1>2, <1>3, <2>1
    <3> QED
      BY <1>1, <3>1, <3>2 DEF Confidences
  <2>4. curve[low] <= curve[high]
    BY <1>4, <2>3
  <2>5. /\ ApplyCalibration(c, curve) \in Confidences
        /\ curve[low] <= ApplyCalibration(c, curve)
        /\ ApplyCalibration(c, curve) <= curve[high]
    <3>1. CASE low = high
      BY <2>2, <2>3, <3>1 DEF Confidences
    <3>2. CASE low # high
      <4>1. low < high
        BY <2>3, <3>2 DEF Confidences
      <4> DEFINE y == curve[low] + ((c - low) * (curve[high] - curve[low])) \div (high - low)
      <4>2. y \in Confidences /\ curve[low] <= y /\ y <= curve[high] /\ Clamp(y) = y
        BY <2>3, <2>4, <4>1, Interpolation
      <4>3. ApplyCalibration(c, curve) = Clamp(y)
        BY <2>2, <3>2
      <4> HIDE DEF y
      <4> QED
        BY <4>2, <4>3
    <3> QED
      BY <3>1, <3>2
  <2>6. ASSUME c <= x PROVE ApplyCalibration(c, curve) <= curve[x]
    <3>1. x \in over
      BY <1>1, <2>6 DEF Over, Confidences
    <3>2. curve[high] <= curve[x] /\ curve[x] \in Confidences
      BY <1>1, <1>4, <2>1, <2>3, <3>1
    <3> QED
      BY <2>3, <2>5, <3>2 DEF Confidences
  <2>7. ASSUME x <= c PROVE curve[x] <= ApplyCalibration(c, curve)
    <3>1. x \in under
      BY <2>7 DEF Under
    <3>2. x <= low
      BY <1>1, <2>1, <2>3, <3>1 DEF Confidences
    <3>3. curve[x] <= curve[low] /\ curve[x] \in Confidences
      BY <1>1, <1>4, <2>3, <3>2
    <3> QED
      BY <2>3, <2>5, <3>3 DEF Confidences
  <2> QED
    BY <2>6, <2>7
<1> QED
  BY <1>5, <1>6, <1>7

\* Calibration never turns the order of two confidences around.
LEMMA CalibrationIsMonotone ==
    ASSUME NEW c \in Confidences, NEW d \in Confidences, c <= d,
           NEW curve \in Curve, Monotone(curve)
    PROVE  ApplyCalibration(c, curve) <= ApplyCalibration(d, curve)
<1> DEFINE xs == Points(curve)
           C == ApplyCalibration(c, curve)
           D == ApplyCalibration(d, curve)
<1>1. C \in Confidences /\ D \in Confidences
  BY CalibrationTypes
<1>2. xs \in SUBSET Confidences /\ \A y \in xs : curve[y] \in Confidences
  BY CalibrationCases
<1>3. CASE \E x \in xs : c <= x /\ x <= d
  <2>1. PICK x \in xs : c <= x /\ x <= d
    BY <1>3
  <2>2. C <= curve[x] /\ curve[x] <= D
    BY <2>1, PointsBound
  <2> HIDE DEF C, D
  <2> QED
    BY <1>1, <1>2, <2>2 DEF Confidences, C, D
<1>4. CASE ~\E x \in xs : c <= x /\ x <= d
  <2>1. Under(c, curve) = Under(d, curve) /\ Over(c, curve) = Over(d, curve)
    <3>1. \A x \in xs : (x <= c <=> x <= d) /\ (x >= c <=> x >= d)
      BY <1>2, <1>4 DEF Confidences
    <3> QED
      BY <3>1 DEF Under, Over
  <2> DEFINE under == Under(c, curve)
             over == Over(c, curve)
  <2>2. CASE xs = {}
    BY <2>2, CalibrationCases
  <2>3. CASE xs # {} /\ (under = {} \/ over = {})
    <3>1. C = D
      BY <2>1, <2>3, CalibrationCases
    <3> HIDE DEF C, D
    <3> QED
      BY <1>1, <3>1 DEF Confidences, C, D
  <2>4. CASE under # {} /\ over # {}
    <3> DEFINE low == Max(under)
               high == Min(over)
    <3>1. under \in SUBSET Confidences /\ over \in SUBSET Confidences
      BY <1>2 DEF Under, Over
    <3>2. low \in under /\ high \in over
      BY <2>4, <3>1, EndsBound
    <3>3. /\ C = IF low = high THEN curve[low]
                 ELSE Clamp(curve[low]
                            + ((c - low) * (curve[high] - curve[low])) \div (high - low))
          /\ D = IF low = high THEN curve[low]
                 ELSE Clamp(curve[low]
                            + ((d - low) * (curve[high] - curve[low])) \div (high - low))
      BY <2>1, <2>4, CalibrationCases
    <3>4. /\ low \in xs /\ high \in xs /\ low <= c /\ high >= c /\ low <= d /\ high >= d
          /\ low \in Confidences /\ high \in Confidences
          /\ curve[low] \in Confidences /\ curve[high] \in Confidences
      BY <1>2, <2>1, <3>2 DEF Under, Over
    <3> HIDE DEF low, high, C, D
    <3>5. CASE low = high
      BY <1>1, <3>3, <3>5 DEF Confidences, C, D
    <3>6. CASE low # high
      <4>1. low < high
        BY <3>4, <3>6 DEF Confidences
      <4>2. low <= high
        BY <3>4 DEF Confidences
      <4>3. curve[low] <= curve[high]
        BY <3>4, <4>2 DEF Monotone
      <4>4. PICK a \in Nat, b \in Nat, h \in Nat, w \in Nat \ {0} :
               a = c - low /\ b = d - low /\ h = curve[high] - curve[low] /\ w = high - low
               /\ a <= b
        <5>1. /\ c - low \in Nat /\ d - low \in Nat /\ curve[high] - curve[low] \in Nat
              /\ high - low \in Nat \ {0} /\ c - low <= d - low
          BY <3>4, <4>1, <4>3 DEF Confidences
        <5> QED
          BY <5>1
      <4>5. a * h \in Nat /\ b * h \in Nat /\ a * h <= b * h
        BY <4>4, Products
      <4>6. (a * h) \div w <= (b * h) \div w
        BY <4>5, DivisionIsMonotone
      <4> DEFINE p == (a * h) \div w
                 q == (b * h) \div w
      <4>7. p \in Int /\ q \in Int /\ p <= q
        BY <4>5, <4>6, Division
      <4>8. C = Clamp(curve[low] + p) /\ D = Clamp(curve[low] + q)
        BY <3>3, <3>6, <4>4
      <4> HIDE DEF p, q
      <4>9. /\ curve[low] + p \in Int /\ curve[low] + q \in Int
            /\ curve[low] + p <= curve[low] + q
        BY <3>4, <4>7 DEF Confidences
      <4> QED
        BY <4>8, <4>9, ClampKeepsOrder DEF C, D
    <3> QED
      BY <3>5, <3>6
  <2> QED
    BY <2>2, <2>3, <2>4
<1> QED
  BY <1>3, <1>4

\* The curve of every scan that is about to calibrate is one of those.
CurvesAreMonotone ==
    \A s \in Scanners : scan[s].pc = "calibrate" => Monotone(scan[s].curve)

LEMMA CurvesInductive ==
    ASSUME TypeOK, CurvesAreMonotone, [Next]_vars
    PROVE  CurvesAreMonotone'
<1> SUFFICES ASSUME NEW s \in Scanners, scan'[s].pc = "calibrate"
             PROVE  Monotone(scan'[s].curve)
  BY DEF CurvesAreMonotone, Monotone, Points
<1>1. CASE scan'[s] = scan[s]
  BY <1>1 DEF CurvesAreMonotone
<1>2. CASE ScanCurve(s)
  <2>1. scan'[s].curve = CurveFor(labels, scan[s].copy)
    BY <1>2, RunningLocals DEF ScanCurve, TypeOK, Running
  <2>2. labels \in Seq(Label) /\ scan[s].copy \in Copy
    BY <1>2, RunningLocals DEF ScanCurve, TypeOK, Running
  <2> QED
    BY <2>1, <2>2, CurveIsMonotone
<1>3. scan'[s] = scan[s] \/ ScanCurve(s)
  <2>1. ASSUME NEW t \in Scanners, ScanStep(t) PROVE scan'[s] = scan[s] \/ ScanCurve(s)
    <3>1. CASE t # s
      BY <2>1, <3>1
         DEF TypeOK, ScanStep, ScanRead, ScanDecay, ScanCurve, ScanCalibrate, ScanAudit, ScanFails
    <3>2. CASE t = s
      <4>1. ~ScanRead(s) /\ ~ScanAudit(s) /\ ~ScanFails(s)
        BY DEF TypeOK, ScanRead, ScanAudit, ScanFails, Idle
      <4>2. ~ScanDecay(s) /\ ~ScanCalibrate(s)
        BY RunningLocals DEF TypeOK, ScanDecay, ScanCalibrate, Running
      <4> QED
        BY <2>1, <3>2, <4>1, <4>2 DEF ScanStep
    <3> QED
      BY <3>1, <3>2
  <2> QED
    BY <2>1 DEF Next, vars, RecordFeedback, ReviewRead, ReviewWrite, DayPasses
<1> QED
  BY <1>1, <1>2, <1>3

\* Calibration is fair between nodes: whatever labels were recorded, in whatever order,
\* it never puts a node that was trusted more below one that was trusted less.
THEOREM CalibrationKeepsOrder == Spec => []OrderIsKept
<1>1. Init => TypeOK /\ CurvesAreMonotone
  BY TypesAtFirst DEF Init, CurvesAreMonotone, Idle
<1>2. TypeOK /\ CurvesAreMonotone /\ [Next]_vars => TypeOK' /\ CurvesAreMonotone'
  BY TypesInductive, CurvesInductive
<1>3. TypeOK /\ CurvesAreMonotone => OrderIsKept
  <2> SUFFICES ASSUME TypeOK, CurvesAreMonotone, NEW s \in Scanners, scan[s].pc = "calibrate",
                      NEW m \in Nodes, NEW n \in Nodes,
                      scan[s].copy[m].serving <= scan[s].copy[n].serving
               PROVE  Calibration(s, m) <= Calibration(s, n)
    BY DEF OrderIsKept
  <2>1. scan[s] \in Running
    BY RunningLocals
  <2>2. /\ scan[s].curve \in Curve /\ Monotone(scan[s].curve)
        /\ scan[s].copy[m].serving \in Confidences /\ scan[s].copy[n].serving \in Confidences
    BY <2>1 DEF Running, Copy, Row, CurvesAreMonotone
  <2> QED
    BY <2>2, CalibrationIsMonotone DEF Calibration
<1> QED
  BY <1>1, <1>2, <1>3, PTL DEF Spec

(***************************************************************************)
(* Pooling computes the isotonic regression.  The graph of the sums up to  *)
(* each position lies on or over the line through any block that the loop  *)
(* ends with; so the mean of that block is what the min-max formula gives. *)
(***************************************************************************)

\* A factor cancels.
LEMMA Cancels ==
    ASSUME NEW a \in Int, NEW b \in Int, NEW y \in Nat \ {0}, a * y <= b * y
    PROVE  a <= b
<1> SUFFICES ASSUME b + 1 <= a PROVE FALSE
  OBVIOUS
<1>1. (b + 1) * y <= a * y
  BY Products
<1>2. (b + 1) * y = b * y + y /\ b * y \in Int
  OBVIOUS
<1> QED
  BY <1>1, <1>2

\* Of three slopes s/x, t/y, u/z.
LEMMA SlopesAreOrdered ==
    ASSUME NEW s \in Int, NEW t \in Int, NEW u \in Int,
           NEW x \in Nat, NEW y \in Nat \ {0}, NEW z \in Nat,
           s * y <= t * x, t * z <= u * y
    PROVE  s * z <= u * x
<1>1. (s * y) * z <= (t * x) * z /\ (t * z) * x <= (u * y) * x
  BY Products
<1>2. (s * z) * y = (s * y) * z /\ (t * x) * z = (t * z) * x /\ (u * x) * y = (u * y) * x
  OBVIOUS
<1>3. s * z \in Int /\ u * x \in Int
  OBVIOUS
<1> DEFINE a == s * z
           b == u * x
<1>4. a * y <= b * y /\ a \in Int /\ b \in Int
  BY <1>1, <1>2, <1>3
<1> HIDE DEF a, b
<1>5. a <= b
  BY <1>4, Cancels
<1> QED
  BY <1>5 DEF a, b

\* A line from one point on, and from there further.
LEMMA LineGoesOn ==
    ASSUME NEW s \in Int, NEW l \in Int, NEW a \in Int, NEW m \in Int, NEW k \in Int,
           NEW p \in Int, NEW q \in Int, NEW r \in Int,
           s * (m - a) <= (q - p) * l, s * (k - m) <= (r - q) * l
    PROVE  s * (k - a) <= (r - p) * l
<1>1. s * (k - a) = s * (m - a) + s * (k - m) /\ (r - p) * l = (q - p) * l + (r - q) * l
  OBVIOUS
<1>2. /\ s * (m - a) \in Int /\ s * (k - m) \in Int
      /\ (q - p) * l \in Int /\ (r - q) * l \in Int
  OBVIOUS
<1> QED
  BY <1>1, <1>2

\* Two runs are pooled, the first steeper: the graph is over the new line where it was over
\* the line of the first,
LEMMA OverFirst ==
    ASSUME NEW s \in Int, NEW t \in Int, NEW x \in Nat \ {0}, NEW y \in Nat \ {0},
           NEW u \in Int, NEW m \in Nat, t * x <= s * y, s * m <= u * x
    PROVE  (s + t) * m <= u * (x + y)
<1>1. (s + t) * x <= s * (x + y)
  <2>1. (s + t) * x = s * x + t * x /\ s * (x + y) = s * x + s * y
    OBVIOUS
  <2>2. s * x \in Int /\ t * x \in Int /\ s * y \in Int
    OBVIOUS
  <2> QED
    BY <2>1, <2>2
<1>2. s + t \in Int /\ x + y \in Nat
  OBVIOUS
<1> QED
  BY <1>1, <1>2, SlopesAreOrdered

\* and where it was over the line of the second.
LEMMA OverSecond ==
    ASSUME NEW s \in Int, NEW t \in Int, NEW x \in Nat \ {0}, NEW y \in Nat \ {0},
           NEW u \in Int, NEW m \in 0..y, t * x <= s * y, t * m <= u * y
    PROVE  (s + t) * (x + m) <= (s + u) * (x + y)
<1> DEFINE d == y - m
           v == t - u
<1>1. d \in Nat /\ v \in Int /\ m = y - d /\ u = t - v
  OBVIOUS
<1>2. v * y <= t * d
  <2>1. v * y = t * y - u * y /\ t * d = t * y - t * m
    OBVIOUS
  <2>2. t * y \in Int /\ u * y \in Int /\ t * m \in Int
    OBVIOUS
  <2> QED
    BY <2>1, <2>2
<1> HIDE DEF d, v
<1>3. t * (x + y) <= (s + t) * y
  <2>1. t * (x + y) = t * x + t * y /\ (s + t) * y = s * y + t * y
    OBVIOUS
  <2>2. t * x \in Int /\ t * y \in Int /\ s * y \in Int
    OBVIOUS
  <2> QED
    BY <2>1, <2>2
<1>4. v * (x + y) <= (s + t) * d
  <2>1. s + t \in Int /\ x + y \in Nat
    OBVIOUS
  <2> QED
    BY <1>1, <1>2, <1>3, <2>1, SlopesAreOrdered
<1> DEFINE w == s + t
           l == x + y
<1>5. w \in Int /\ l \in Int /\ x + m = l - d /\ s + u = w - v
  BY <1>1
<1>6. v * l <= w * d
  BY <1>4
<1> HIDE DEF w, l
<1>7. w * (l - d) = w * l - w * d /\ (w - v) * l = w * l - v * l
  BY <1>1, <1>5
<1>8. w * l \in Int /\ w * d \in Int /\ v * l \in Int
  BY <1>1, <1>5
<1>9. w * (l - d) <= (w - v) * l
  BY <1>6, <1>7, <1>8
<1> QED
  BY <1>5, <1>9 DEF w, l

\* Sums up to each position.
TotalsOf(P, values, n) ==
    /\ \A k \in 1..n : values[k] = P[k] - P[k - 1]
    /\ \A j \in 1..n : \A k \in j..n : SumFunctionOnSet(values, j..k) = P[k] - P[j - 1]

\* A sum up to k is that up to k - 1, and the value at k.
LEMMA SumToLast ==
    ASSUME NEW n \in Nat, NEW values \in [1..n -> Int], NEW j \in 1..n, NEW k \in (j - 1)..n
    PROVE  /\ SumFunctionOnSet(values, j..k) \in Int
           /\ k < j => SumFunctionOnSet(values, j..k) = 0
           /\ k >= j => SumFunctionOnSet(values, j..k)
                          = values[k] + SumFunctionOnSet(values, j..(k - 1))
<1>1. j \in Int /\ k \in Int /\ n \in Int
  OBVIOUS
<1>2. IsFiniteSet(j..k)
  BY <1>1, FS_Interval
<1>3. \A i \in j..k : values[i] \in Int
  OBVIOUS
<1> DEFINE S == j..k
<1>4. k < j => S = {}
  BY <1>1
<1>5. k >= j => k \in S /\ S \ {k} = j..(k - 1)
  BY <1>1
<1> HIDE DEF S
<1>6. /\ SumFunctionOnSet(values, S) \in Int
      /\ \A i \in S : SumFunctionOnSet(values, S) = values[i] + SumFunctionOnSet(values, S \ {i})
  BY <1>2, <1>3, SumWithout DEF S
<1>7. k < j => SumFunctionOnSet(values, S) = 0
  BY <1>4, SumOfNothing, Zenon
<1>8. k >= j => SumFunctionOnSet(values, S)
                  = values[k] + SumFunctionOnSet(values, j..(k - 1))
  BY <1>5, <1>6, Zenon
<1> QED
  BY <1>6, <1>7, <1>8 DEF S

\* There are such sums, and the sum from j to k is a difference of two of them.
LEMMA TotalsExist ==
    ASSUME NEW n \in Nat, NEW values \in [1..n -> Int]
    PROVE  \E P \in [0..n -> Int] : TotalsOf(P, values, n)
<1> DEFINE Sum(j, k) == SumFunctionOnSet(values, j..k)
           P == [k \in 0..n |-> IF n = 0 THEN 0 ELSE Sum(1, k)]
<1>1. \A j \in 1..n : \A k \in (j - 1)..n :
         /\ Sum(j, k) \in Int /\ (k < j => Sum(j, k) = 0)
         /\ k >= j => Sum(j, k) = values[k] + Sum(j, k - 1)
  BY SumToLast
<1> HIDE DEF Sum
<1>2. P \in [0..n -> Int]
  <2>1. \A k \in 0..n : n # 0 => Sum(1, k) \in Int
    BY <1>1
  <2> QED
    BY <2>1
<1>3. \A k \in 1..n : values[k] \in Int /\ values[k] = P[k] - P[k - 1]
  <2> SUFFICES ASSUME NEW k \in 1..n PROVE values[k] \in Int /\ values[k] = P[k] - P[k - 1]
    OBVIOUS
  <2>1. /\ 1 \in 1..n /\ k \in (1 - 1)..n /\ k - 1 \in (1 - 1)..n /\ k >= 1 /\ n # 0
        /\ k \in 0..n /\ k - 1 \in 0..n
    OBVIOUS
  <2>2. Sum(1, k) \in Int /\ Sum(1, k - 1) \in Int /\ Sum(1, k) = values[k] + Sum(1, k - 1)
    BY <1>1, <2>1
  <2>3. P[k] = Sum(1, k) /\ P[k - 1] = Sum(1, k - 1) /\ values[k] \in Int
    BY <2>1
  <2> HIDE DEF P
  <2> QED
    BY <2>2, <2>3
<1> HIDE DEF P
<1>4. ASSUME NEW j \in 1..n PROVE \A k \in j..n : Sum(j, k) = P[k] - P[j - 1]
  <2> DEFINE Bad == {k \in j..n : Sum(j, k) # P[k] - P[j - 1]}
  <2> SUFFICES ASSUME Bad # {} PROVE FALSE
    OBVIOUS
  <2>1. Bad \in SUBSET Nat
    OBVIOUS
  <2> HIDE DEF Bad
  <2>2. PICK k \in Bad : \A l \in Bad : k <= l
    BY <2>1, LeastMember
  <2>3. k \in j..n /\ Sum(j, k) # P[k] - P[j - 1]
    BY <2>2 DEF Bad
  <2>4. /\ k \in (j - 1)..n /\ k - 1 \in (j - 1)..n /\ k >= j
        /\ k \in 1..n /\ k \in 0..n /\ k - 1 \in 0..n /\ j - 1 \in 0..n
    BY <2>3
  <2>5. Sum(j, k) = values[k] + Sum(j, k - 1) /\ Sum(j, k - 1) \in Int
    BY <1>1, <2>4
  <2>6. values[k] \in Int /\ values[k] = P[k] - P[k - 1]
    BY <1>3, <2>4
  <2>7. P[k] \in Int /\ P[k - 1] \in Int /\ P[j - 1] \in Int
    BY <1>2, <2>4
  <2>8. CASE k = j
    <3>1. Sum(j, k - 1) = 0
      BY <1>1, <2>4, <2>8
    <3> QED
      BY <2>3, <2>5, <2>6, <2>7, <2>8, <3>1
  <2>9. CASE k # j
    <3>1. k - 1 \in j..n /\ ~(k <= k - 1)
      BY <2>3, <2>9
    <3>2. Sum(j, k - 1) = P[k - 1] - P[j - 1]
      BY <2>2, <3>1 DEF Bad
    <3> QED
      BY <2>3, <2>5, <2>6, <2>7, <3>2, SMTT(30)
  <2> QED
    BY <2>8, <2>9
<1>5. TotalsOf(P, values, n)
  BY <1>3, <1>4 DEF TotalsOf, Sum
<1> QED
  BY <1>2, <1>5

\* The sum of a run; whether of two runs, with sums t, s and lengths y, x, the first has no
\* more slope; whether at m the graph is on or over the line from p with slope s/x; and the
\* same for the line through a block.
Between(P, p, q, s) == s = P[q] - P[p]
NoSteeper(t, y, s, x) == t * x <= s * y
AboveLine(P, p, s, x, m) == s * (m - p) <= (P[m] - P[p]) * x
OnOrOver(P, b, m) == AboveLine(P, b.first - 1, b.sum, Size(b), m)

\* A block is one whose own graph is over it.
Chord(P, b) ==
    /\ Between(P, b.first - 1, b.last, b.sum)
    /\ \A m \in b.first..b.last : OnOrOver(P, b, m)
Chords(P, blocks) == \A j \in 1..Len(blocks) : Chord(P, blocks[j])

\* Blocks lie within the positions.
LEMMA BlocksFit ==
    ASSUME NEW n \in Nat, NEW blocks, Partition(blocks, n), NEW j \in 1..Len(blocks)
    PROVE  /\ blocks[j] \in Block /\ blocks[j].sum \in Int
           /\ blocks[j].first \in 1..n /\ blocks[j].last \in blocks[j].first..n
           /\ Size(blocks[j]) \in Nat \ {0}
<1> DEFINE len == Len(blocks)
<1>1. /\ blocks \in Seq(Block) /\ len \in Nat /\ len >= 1
      /\ blocks[1].first = 1 /\ blocks[len].last = n
      /\ \A k \in 1..len : blocks[k].first <= blocks[k].last
  BY DEF Partition
<1>2. \A k \in 1..len : blocks[k] \in Block
  BY <1>1
<1>3. \A k \in 1..len : /\ blocks[k].first \in Nat /\ blocks[k].last \in Nat
                        /\ blocks[k].sum \in Int
  BY <1>2 DEF Block
<1>4. /\ j \in 1..len /\ 1 \in 1..len /\ len \in 1..len
      /\ 1 < j => blocks[1].last < blocks[j].first
      /\ j < len => blocks[j].last < blocks[len].first
  <2>1. j \in 1..len /\ 1 \in 1..len /\ len \in 1..len
    BY <1>1
  <2> QED
    BY <2>1, PartitionAscends
<1> HIDE DEF len
<1>5. blocks[j].first >= 1
  BY <1>1, <1>3, <1>4
<1>6. blocks[j].last <= n
  <2>1. CASE j = len
    BY <1>1, <1>3, <1>4, <2>1
  <2>2. CASE j # len
    BY <1>1, <1>3, <1>4, <2>2
  <2> QED
    BY <2>1, <2>2
<1>7. blocks[j].first <= blocks[j].last
  BY <1>1, <1>4
<1> QED
  BY <1>2, <1>3, <1>4, <1>5, <1>6, <1>7 DEF Size

\* A pooled run is a block again.
\* Differences in a row add up.
LEMMA Telescopes ==
    ASSUME NEW a \in Int, NEW b \in Int, NEW c \in Int
    PROVE  (b - a) + (c - b) = c - a
  OBVIOUS

LEMMA PooledLine ==
    ASSUME NEW n \in Nat, NEW P \in [0..n -> Int], NEW p \in 0..n, NEW q \in 0..n,
           NEW r \in 0..n, NEW x \in Nat \ {0}, NEW y \in Nat \ {0}, q = p + x, r = q + y,
           NEW s \in Int, NEW t \in Int, Between(P, p, q, s), Between(P, q, r, t),
           NoSteeper(t, y, s, x),
           \A m \in (p + 1)..q : AboveLine(P, p, s, x, m),
           \A m \in (q + 1)..r : AboveLine(P, q, t, y, m)
    PROVE  /\ Between(P, p, r, s + t)
           /\ \A m \in (p + 1)..r : AboveLine(P, p, s + t, x + y, m)
<1>1. P[p] \in Int /\ P[q] \in Int /\ P[r] \in Int
  OBVIOUS
<1> DEFINE u0 == P[p]
           u1 == P[q]
           u2 == P[r]
<1>2. u0 \in Int /\ u1 \in Int /\ u2 \in Int /\ s = u1 - u0 /\ t = u2 - u1
  BY <1>1 DEF Between
<1>3. u0 = P[p] /\ u1 = P[q] /\ u2 = P[r]
  OBVIOUS
<1> HIDE DEF u0, u1, u2
<1>4. s + t = u2 - u0
  BY <1>2, Telescopes
<1>5. ASSUME NEW m \in (p + 1)..r PROVE AboveLine(P, p, s + t, x + y, m)
  <2>1. m \in 0..n /\ m \in Int /\ p \in Int /\ q \in Int
    OBVIOUS
  <2>2. P[m] \in Int
    BY <2>1
  <2> DEFINE v == P[m]
  <2>3. v = P[m] /\ v \in Int
    BY <2>2
  <2> HIDE DEF v
  <2>4. CASE m <= q
    <3> DEFINE k == m - p
               u == v - u0
    <3>1. m \in (p + 1)..q /\ k \in Nat
      BY <2>1, <2>4
    <3>2. u \in Int
      BY <1>2, <2>3
    <3>3. s * k <= u * x
      BY <1>3, <2>3, <3>1 DEF AboveLine
    <3> HIDE DEF k, u
    <3>4. (s + t) * k <= u * (x + y)
      BY <3>1, <3>2, <3>3, OverFirst DEF NoSteeper
    <3> QED
      BY <1>3, <2>3, <3>4 DEF k, u, AboveLine
  <2>5. CASE ~(m <= q)
    <3> DEFINE k == m - q
               u == v - u1
    <3>1. m \in (q + 1)..r /\ k \in 0..y /\ m - p = x + k
      BY <2>1, <2>5
    <3>2. u \in Int /\ v - u0 = s + u
      BY <1>2, <2>3, Telescopes, SMTT(30)
    <3>3. t * k <= u * y
      BY <1>3, <2>3, <3>1 DEF AboveLine
    <3> HIDE DEF k, u
    <3>4. (s + t) * (x + k) <= (s + u) * (x + y)
      BY <3>1, <3>2, <3>3, OverSecond DEF NoSteeper
    <3> QED
      BY <1>3, <2>3, <3>1, <3>2, <3>4 DEF AboveLine
  <2> QED
    BY <2>4, <2>5
<1> QED
  BY <1>3, <1>4, <1>5 DEF Between

\* In terms of blocks.
LEMMA PooledChord ==
    ASSUME NEW n \in Nat, NEW P \in [0..n -> Int], NEW a \in Block, NEW b \in Block,
           a.first \in 1..n, a.last \in a.first..n, b.first = a.last + 1, b.last \in b.first..n,
           Chord(P, a), Chord(P, b), Exceeds(a, b),
           NEW c, c = [first |-> a.first, last |-> b.last, sum |-> a.sum + b.sum]
    PROVE  Chord(P, c)
<1> DEFINE s == a.sum
           t == b.sum
           p == a.first - 1
           q == a.last
           r == b.last
           x == Size(a)
           y == Size(b)
<1>1. /\ s \in Int /\ t \in Int
      /\ p \in 0..n /\ q \in 0..n /\ r \in 0..n /\ x \in Nat \ {0} /\ y \in Nat \ {0}
      /\ q = p + x /\ r = q + y
  <2>1. s \in Int /\ t \in Int
    BY DEF Block
  <2> DEFINE f == a.first
             g == b.first
  <2>2. /\ f \in 1..n /\ q \in f..n /\ g = q + 1 /\ r \in g..n
        /\ p = f - 1 /\ x = (q - f) + 1 /\ y = (r - g) + 1
    BY DEF Size
  <2> HIDE DEF f, g, p, q, r, x, y
  <2>3. f \in Int /\ q \in Int /\ r \in Int /\ g \in Int /\ n \in Int
    BY <2>2
  <2> QED
    BY <2>1, <2>2, <2>3
<1>2. a.first = p + 1 /\ b.first = q + 1 /\ b.first - 1 = q
  BY DEF Block
<1>3. /\ c.first = a.first /\ c.last = r /\ c.sum = s + t /\ c.first - 1 = p
      /\ Size(c) = x + y
  BY DEF Block, Size
<1>4. s * y > t * x
  BY DEF Exceeds
<1>5. Between(P, p, q, s) /\ Between(P, q, r, t)
  BY <1>2 DEF Chord
<1>6. \A m \in (p + 1)..q : AboveLine(P, p, s, x, m)
  BY <1>2 DEF Chord, OnOrOver
<1>7. \A m \in (q + 1)..r : AboveLine(P, q, t, y, m)
  BY <1>2 DEF Chord, OnOrOver
<1> HIDE DEF s, t, p, q, r, x, y
<1>8. NoSteeper(t, y, s, x)
  <2>1. s * y \in Int /\ t * x \in Int
    BY <1>1
  <2> QED
    BY <1>4, <2>1 DEF NoSteeper
<1>9. /\ Between(P, p, r, s + t)
      /\ \A m \in (p + 1)..r : AboveLine(P, p, s + t, x + y, m)
  <2> HIDE DEF s, t, p, q, r, x, y
  <2> QED
    BY <1>1, <1>5, <1>6, <1>7, <1>8, PooledLine
<1> QED
  BY <1>2, <1>3, <1>9 DEF Chord, OnOrOver

\* The other blocks stay.
LEMMA PoolKeepsChords ==
    ASSUME NEW n \in Nat, NEW P \in [0..n -> Int], NEW blocks, Partition(blocks, n),
           NEW i \in 1..Len(blocks), i < Len(blocks), Exceeds(blocks[i], blocks[i + 1]),
           Chords(P, blocks)
    PROVE  Chords(P, PoolAt(blocks, i))
<1> DEFINE len == Len(blocks)
           c == [first |-> blocks[i].first, last |-> blocks[i + 1].last,
                 sum |-> blocks[i].sum + blocks[i + 1].sum]
<1>1. /\ blocks \in Seq(Block) /\ len \in Nat /\ i \in 1..len /\ i + 1 \in 1..len
      /\ blocks[i + 1].first = blocks[i].last + 1
  BY DEF Partition
<1>2. PoolAt(blocks, i) = [j \in 1..(len - 1) |-> CASE j < i -> blocks[j]
                                                   [] j = i -> c
                                                   [] j > i -> blocks[j + 1]]
  BY DEF PoolAt
<1>3. Len(PoolAt(blocks, i)) = len - 1
  <2>1. i \in Nat
    OBVIOUS
  <2> QED
    BY <1>1, <2>1, PoolTypes
<1>4. Chord(P, c)
  <2>1. /\ blocks[i] \in Block /\ blocks[i].first \in 1..n
        /\ blocks[i].last \in blocks[i].first..n
        /\ blocks[i + 1] \in Block /\ blocks[i + 1].last \in blocks[i + 1].first..n
    BY <1>1, BlocksFit
  <2>2. Chord(P, blocks[i]) /\ Chord(P, blocks[i + 1])
    BY <1>1 DEF Chords
  <2> QED
    BY <1>1, <2>1, <2>2, PooledChord
<1> HIDE DEF c
<1>5. ASSUME NEW j \in 1..(len - 1) PROVE Chord(P, PoolAt(blocks, i)[j])
  <2>1. j \in 1..len /\ j + 1 \in 1..len
    BY <1>1
  <2>2. CASE j < i
    <3>1. PoolAt(blocks, i)[j] = blocks[j]
      BY <1>2, <2>2
    <3> QED
      BY <2>1, <3>1 DEF Chords
  <2>3. CASE j = i
    <3>1. PoolAt(blocks, i)[j] = c
      BY <1>1, <1>2, <2>3
    <3> QED
      BY <1>4, <3>1
  <2>4. CASE j > i
    <3>1. PoolAt(blocks, i)[j] = blocks[j + 1]
      BY <1>1, <1>2, <2>4
    <3> QED
      BY <2>1, <3>1 DEF Chords
  <2> QED
    BY <1>1, <2>2, <2>3, <2>4
<1> QED
  BY <1>3, <1>5 DEF Chords

\* So the blocks the loop ends with are of that kind.
LEMMA PavaEndsWithChords ==
    ASSUME NEW n \in Nat, NEW P \in [0..n -> Int]
    PROVE  \A st \in Pools : PavaInv(st, n) /\ Chords(P, st[1]) => Chords(P, PavaFrom[st])
<1> DEFINE Bad == {st \in Pools : /\ PavaInv(st, n) /\ Chords(P, st[1])
                                  /\ ~Chords(P, PavaFrom[st])}
<1> SUFFICES ASSUME Bad # {} PROVE FALSE
  OBVIOUS
<1>1. LeftToDo \in [Pools -> Nat]
  <2>1. \A st \in Pools : (IF st[2] >= Len(st[1]) THEN 0 ELSE 2 * Len(st[1]) - st[2]) \in Nat
    BY DEF Pools
  <2> QED
    BY <2>1 DEF LeftToDo
<1>2. PICK st \in Bad : \A t \in Bad : LeftToDo[st] <= LeftToDo[t]
  <2>1. Bad \in SUBSET Pools
    OBVIOUS
  <2> HIDE DEF Bad
  <2> QED
    BY <1>1, <2>1, LeastMeasure
<1>3. /\ st \in Pools /\ PavaInv(st, n) /\ Chords(P, st[1]) /\ ~Chords(P, PavaFrom[st])
      /\ st[2] \in Nat /\ Len(st[1]) \in Nat
  BY DEF Pools
<1>4. PavaFrom[st] = IF st[2] >= Len(st[1]) THEN st[1] ELSE PavaFrom[PavaStep(st)]
  BY <1>3, PavaUnfolds
<1>5. st[2] < Len(st[1]) /\ PavaFrom[st] = PavaFrom[PavaStep(st)]
  BY <1>3, <1>4
<1>6. PavaStep(st) \in Pools /\ LeftToDo[PavaStep(st)] < LeftToDo[st]
  BY <1>3, <1>5, PavaSteps
<1>7. PavaInv(PavaStep(st), n)
  BY <1>3, <1>5, PavaInvInductive
<1>8. Chords(P, PavaStep(st)[1])
  <2>1. CASE ~Exceeds(st[1][st[2]], st[1][st[2] + 1])
    BY <1>3, <2>1 DEF PavaStep
  <2>2. CASE Exceeds(st[1][st[2]], st[1][st[2] + 1])
    <3>1. PavaStep(st)[1] = PoolAt(st[1], st[2])
      BY <2>2 DEF PavaStep
    <3>2. Partition(st[1], n) /\ st[2] \in 1..Len(st[1])
      BY <1>3, <1>5 DEF PavaInv
    <3>3. Chords(P, PoolAt(st[1], st[2]))
      BY <1>3, <1>5, <2>2, <3>2, PoolKeepsChords
    <3> QED
      BY <3>1, <3>3
  <2> QED
    BY <2>1, <2>2
<1>9. PavaStep(st) \in Bad
  BY <1>3, <1>5, <1>6, <1>7, <1>8
<1>10. LeftToDo[st] <= LeftToDo[PavaStep(st)]
  BY <1>2, <1>9
<1>11. LeftToDo[st] \in Nat /\ LeftToDo[PavaStep(st)] \in Nat
  BY <1>1, <1>3, <1>6
<1> QED
  BY <1>6, <1>10, <1>11

\* Of blocks in order, each is no steeper than any later one.
LEMMA SlopesAscend ==
    ASSUME NEW n \in Nat, NEW blocks, Partition(blocks, n),
           InOrderUpTo(blocks, Len(blocks)),
           NEW j \in 1..Len(blocks), NEW k \in 1..Len(blocks), j <= k
    PROVE  blocks[j].sum * Size(blocks[k]) <= blocks[k].sum * Size(blocks[j])
<1> DEFINE len == Len(blocks)
           Rises(l) == blocks[j].sum * Size(blocks[l]) <= blocks[l].sum * Size(blocks[j])
           Bad == {l \in 1..len : j <= l /\ ~Rises(l)}
<1> SUFFICES ASSUME Bad # {} PROVE FALSE
  OBVIOUS
<1>1. len \in Nat /\ \A l \in 1..len : blocks[l].sum \in Int /\ Size(blocks[l]) \in Nat \ {0}
  <2>1. len \in Nat
    BY DEF Partition
  <2>2. ASSUME NEW l \in 1..len PROVE blocks[l].sum \in Int /\ Size(blocks[l]) \in Nat \ {0}
    BY BlocksFit
  <2> QED
    BY <2>1, <2>2
<1>2. Bad \in SUBSET Nat
  OBVIOUS
<1> HIDE DEF Bad
<1>3. PICK l \in Bad : \A m \in Bad : l <= m
  BY <1>2, LeastMember
<1>4. l \in 1..len /\ j <= l /\ ~Rises(l) /\ j \in 1..len
  BY <1>3 DEF Bad
<1>5. l # j
  BY <1>1, <1>4
<1>6. l - 1 \in 1..len /\ j <= l - 1 /\ ~(l <= l - 1) /\ l - 1 < len /\ l - 1 + 1 = l
  BY <1>1, <1>4, <1>5
<1>7. Rises(l - 1)
  BY <1>3, <1>6 DEF Bad
<1>8. ~Exceeds(blocks[l - 1], blocks[l - 1 + 1])
  BY <1>6 DEF InOrderUpTo
<1> HIDE DEF len
<1> DEFINE a == blocks[j]
           b == blocks[l - 1]
           c == blocks[l]
<1>9. /\ a.sum \in Int /\ b.sum \in Int /\ c.sum \in Int
      /\ Size(a) \in Nat \ {0} /\ Size(b) \in Nat \ {0} /\ Size(c) \in Nat \ {0}
  BY <1>1, <1>4, <1>6
<1>10. b.sum * Size(c) <= c.sum * Size(b)
  <2>1. ~Exceeds(b, c)
    BY <1>6, <1>8
  <2> HIDE DEF b, c
  <2>2. b.sum * Size(c) \in Int /\ c.sum * Size(b) \in Int
    BY <1>9
  <2> QED
    BY <2>1, <2>2 DEF Exceeds
<1>11. a.sum * Size(b) <= b.sum * Size(a)
  BY <1>7
<1>12. ~(a.sum * Size(c) <= c.sum * Size(a))
  BY <1>4
<1> HIDE DEF a, b, c
<1> QED
  BY <1>9, <1>10, <1>11, <1>12, SlopesAreOrdered

\* A line that the graph is over at e is one it is over at a later m, if from e to m it is
\* over a line that is no less steep;
LEMMA AboveGoesOn ==
    ASSUME NEW n \in Nat, NEW P \in [0..n -> Int], NEW a \in 0..n, NEW e \in 0..n,
           NEW m \in 0..n, e <= m, NEW s \in Int, NEW t \in Int,
           NEW x \in Nat \ {0}, NEW y \in Nat \ {0},
           AboveLine(P, a, s, x, e), AboveLine(P, e, t, y, m), NoSteeper(s, x, t, y)
    PROVE  AboveLine(P, a, s, x, m)
<1> DEFINE z == m - e
           u == P[m] - P[e]
<1>1. z \in Nat /\ u \in Int /\ P[m] \in Int /\ P[e] \in Int /\ P[a] \in Int
  OBVIOUS
<1>2. t * z <= u * y /\ s * y <= t * x
  BY DEF AboveLine, NoSteeper
<1> HIDE DEF z, u
<1>3. s * z <= u * x
  BY <1>1, <1>2, SlopesAreOrdered
<1>4. s * (m - e) <= (P[m] - P[e]) * x /\ s * (e - a) <= (P[e] - P[a]) * x
  BY <1>3 DEF z, u, AboveLine
<1>5. s * (m - a) <= (P[m] - P[a]) * x
  <2>1. m \in Int /\ e \in Int /\ a \in Int /\ x \in Int
    OBVIOUS
  <2> QED
    BY <1>1, <1>4, <2>1, LineGoesOn
<1> QED
  BY <1>5 DEF AboveLine

\* and at an earlier m, if from m to e it is under a line that is no steeper.
LEMMA AboveGoesBack ==
    ASSUME NEW n \in Nat, NEW P \in [0..n -> Int], NEW a \in 0..n, NEW e \in 0..n,
           NEW b \in 0..n, NEW m \in b..e, NEW s \in Int, NEW t \in Int,
           NEW x \in Nat \ {0}, NEW y \in Nat \ {0}, e = b + y, Between(P, b, e, t),
           AboveLine(P, a, s, x, e), AboveLine(P, b, t, y, m), NoSteeper(t, y, s, x)
    PROVE  AboveLine(P, a, s, x, m)
<1>1. m \in 0..n /\ m \in Int /\ e \in Int /\ a \in Int /\ b \in Int /\ x \in Int /\ y \in Int
  OBVIOUS
<1>2. P[m] \in Int /\ P[e] \in Int /\ P[a] \in Int /\ P[b] \in Int
  BY <1>1
<1> DEFINE z == e - m
           v == P[m] - P[b]
           u == P[e] - P[m]
           k == m - b
<1>3. z \in Nat /\ u \in Int /\ v \in Int /\ k \in Int /\ y = k + z
  BY <1>1, <1>2
<1>4. t = v + u
  <2>1. t = P[e] - P[b]
    BY DEF Between
  <2> QED
    BY <1>2, <2>1
<1>5. t * k <= v * y /\ t * x <= s * y
  BY DEF AboveLine, NoSteeper
<1>6. s * (e - a) <= (P[e] - P[a]) * x
  BY DEF AboveLine
<1> HIDE DEF z, v, u, k
<1>7. u * y <= t * z
  <2>1. u * y = t * y - v * y
    BY <1>1, <1>3, <1>4
  <2>2. t * z = t * y - t * k
    BY <1>1, <1>3
  <2>3. t * y \in Int /\ v * y \in Int /\ t * k \in Int
    BY <1>1, <1>3
  <2> QED
    BY <1>5, <2>1, <2>2, <2>3
<1>8. u * x <= s * z
  BY <1>3, <1>5, <1>7, SlopesAreOrdered
<1>9. s * (m - e) <= (P[m] - P[e]) * x
  <2>1. m - e = 0 - z /\ P[m] - P[e] = 0 - u
    BY <1>1, <1>2 DEF z, u
  <2>2. s * (0 - z) = 0 - s * z /\ (0 - u) * x = 0 - u * x
    BY <1>1, <1>3
  <2>3. s * z \in Int /\ u * x \in Int
    BY <1>1, <1>3
  <2> QED
    BY <1>8, <2>1, <2>2, <2>3
<1>10. s * (m - a) <= (P[m] - P[a]) * x
  BY <1>1, <1>2, <1>6, <1>9, LineGoesOn
<1> QED
  BY <1>10 DEF AboveLine

\* So the graph is nowhere under the line through one of the final blocks.
LEMMA GraphIsAbove ==
    ASSUME NEW n \in Nat, NEW P \in [0..n -> Int], NEW blocks, Partition(blocks, n),
           InOrderUpTo(blocks, Len(blocks)), Chords(P, blocks),
           NEW q \in 1..Len(blocks), NEW m \in 0..n
    PROVE  OnOrOver(P, blocks[q], m)
<1> DEFINE len == Len(blocks)
           a(p) == blocks[p].first - 1
           e(p) == blocks[p].last
           s(p) == blocks[p].sum
           x(p) == Size(blocks[p])
           Above(k) == AboveLine(P, a(q), s(q), x(q), k)
           Within(p) == a(p)..e(p)
<1>1. len \in Nat /\ q \in 1..len
  BY DEF Partition
<1>2. ASSUME NEW p \in 1..len
      PROVE  /\ a(p) \in 0..n /\ e(p) \in 0..n /\ s(p) \in Int /\ x(p) \in Nat \ {0}
             /\ e(p) = a(p) + x(p)
  <2>1. /\ blocks[p].sum \in Int /\ blocks[p].first \in 1..n
        /\ blocks[p].last \in blocks[p].first..n /\ Size(blocks[p]) \in Nat \ {0}
    BY BlocksFit
  <2>2. Size(blocks[p]) = blocks[p].last - blocks[p].first + 1
    BY DEF Size
  <2> QED
    BY <2>1, <2>2, SMTT(30)
<1>3. \A p \in 1..len : Between(P, a(p), e(p), s(p))
  BY DEF Chords, Chord
<1>4. \A p \in 1..len : \A k \in (a(p) + 1)..e(p) : AboveLine(P, a(p), s(p), x(p), k)
  <2> SUFFICES ASSUME NEW p \in 1..len, NEW k \in (a(p) + 1)..e(p)
               PROVE  AboveLine(P, a(p), s(p), x(p), k)
    OBVIOUS
  <2>1. blocks[p].first = a(p) + 1
    <3>1. blocks[p].first \in 1..n
      BY BlocksFit
    <3> QED
      BY <3>1
  <2> QED
    BY <2>1 DEF Chords, Chord, OnOrOver
<1>5. \A p \in 1..len : p < len => a(p + 1) = e(p)
  <2> SUFFICES ASSUME NEW p \in 1..len, p < len PROVE a(p + 1) = e(p)
    OBVIOUS
  <2>1. blocks[p + 1].first = blocks[p].last + 1
    BY DEF Partition
  <2>2. blocks[p].last \in Int
    BY <1>2
  <2> QED
    BY <2>1, <2>2
<1>6. \A j, k \in 1..len : j <= k => NoSteeper(s(j), x(j), s(k), x(k))
  BY SlopesAscend DEF NoSteeper
<1>7. OnOrOver(P, blocks[q], m) <=> Above(m)
  BY DEF OnOrOver
<1>8. a(1) = 0
  BY DEF Partition
<1>9. m = 0 \/ \E p \in 1..len : m \in (a(p) + 1)..e(p)
  <2>1. CASE m = 0
    BY <2>1
  <2>2. CASE m # 0
    <3>1. m \in 1..n
      BY <2>2
    <3>2. PICK p \in 1..len : m \in blocks[p].first..blocks[p].last
      BY <3>1, PartitionCovers
    <3>3. blocks[p].first \in 1..n
      BY BlocksFit
    <3> QED
      BY <3>2, <3>3
  <2> QED
    BY <2>1, <2>2
<1> HIDE DEF len, a, e, s, x
<1>10. \A p \in 1..len : /\ a(p) \in 0..n /\ e(p) \in 0..n /\ s(p) \in Int
                         /\ x(p) \in Nat \ {0} /\ e(p) = a(p) + x(p)
                         /\ a(p) \in Within(p) /\ e(p) \in Within(p)
  BY <1>2
<1>11. \A p \in 1..len : AboveLine(P, a(p), s(p), x(p), a(p))
  <2> SUFFICES ASSUME NEW p \in 1..len PROVE AboveLine(P, a(p), s(p), x(p), a(p))
    OBVIOUS
  <2>1. /\ P[a(p)] \in Int /\ a(p) \in Int /\ s(p) \in Int /\ x(p) \in Int
    BY <1>10
  <2>2. a(p) - a(p) = 0 /\ P[a(p)] - P[a(p)] = 0 /\ s(p) * 0 = 0 /\ 0 * x(p) = 0
    BY <2>1
  <2> QED
    BY <2>2 DEF AboveLine
<1>12. \A p \in 1..len : \A k \in Within(p) : AboveLine(P, a(p), s(p), x(p), k)
  <2> SUFFICES ASSUME NEW p \in 1..len, NEW k \in Within(p)
               PROVE  AboveLine(P, a(p), s(p), x(p), k)
    OBVIOUS
  <2>1. k = a(p) \/ k \in (a(p) + 1)..e(p)
    BY <1>10
  <2> QED
    BY <1>4, <1>11, <2>1
<1>13. \A p \in q..len : \A k \in Within(p) : Above(k)
  <2> DEFINE Bad == {p \in q..len : ~(\A k \in Within(p) : Above(k))}
  <2> SUFFICES ASSUME Bad # {} PROVE FALSE
    OBVIOUS
  <2>1. Bad \in SUBSET Nat
    BY <1>1
  <2> HIDE DEF Bad
  <2>2. PICK p \in Bad : \A l \in Bad : p <= l
    BY <2>1, LeastMember
  <2>3. p \in q..len /\ ~(\A k \in Within(p) : Above(k))
    BY <2>2 DEF Bad
  <2>4. p # q
    BY <1>1, <1>12, <2>3
  <2>5. /\ p \in 1..len /\ p - 1 \in q..len /\ p - 1 \in 1..len /\ p - 1 < len
        /\ p - 1 + 1 = p /\ ~(p <= p - 1) /\ q <= p
    BY <1>1, <2>3, <2>4
  <2>6. a(p) = e(p - 1) /\ Above(a(p))
    <3>1. \A k \in Within(p - 1) : Above(k)
      BY <2>2, <2>5 DEF Bad
    <3>2. a(p) = e(p - 1)
      <4>1. a(p - 1 + 1) = e(p - 1)
        BY <1>5, <2>5
      <4> QED
        BY <2>5, <4>1
    <3> QED
      BY <1>10, <2>5, <3>1, <3>2
  <2>7. PICK k \in Within(p) : ~Above(k)
    BY <2>3
  <2>8. a(p) \in 0..n /\ k \in 0..n /\ a(p) <= k
    <3>1. a(p) \in 0..n /\ e(p) \in 0..n
      BY <1>10, <2>5
    <3> QED
      BY <2>7, <3>1
  <2>9. AboveLine(P, a(p), s(p), x(p), k) /\ NoSteeper(s(q), x(q), s(p), x(p))
    BY <1>1, <1>6, <1>12, <2>5, <2>7
  <2>10. /\ a(q) \in 0..n /\ s(q) \in Int /\ x(q) \in Nat \ {0}
         /\ s(p) \in Int /\ x(p) \in Nat \ {0}
    BY <1>1, <1>10, <2>5
  <2>11. Above(k)
    BY <2>6, <2>8, <2>9, <2>10, AboveGoesOn
  <2> QED
    BY <2>7, <2>11
<1>14. \A p \in 1..q : p < q => \A k \in Within(p) : Above(k)
  <2> DEFINE Bad == {p \in 1..len : p < q /\ ~(\A k \in Within(p) : Above(k))}
  <2> SUFFICES ASSUME Bad # {} PROVE FALSE
    BY <1>1
  <2>1. Bad \in SUBSET (1..len)
    BY <1>1
  <2> HIDE DEF Bad
  <2>2. PICK p \in Bad : \A l \in Bad : l <= p
    BY <1>1, <2>1, GreatestIndex
  <2>3. p \in 1..len /\ p < q /\ ~(\A k \in Within(p) : Above(k))
    BY <2>2 DEF Bad
  <2>4. p + 1 \in 1..len /\ p < len /\ ~(p + 1 <= p) /\ (p + 1 = q \/ p + 1 < q) /\ p <= q
    BY <1>1, <2>3
  <2>5. a(p + 1) = e(p)
    BY <1>5, <2>3, <2>4
  <2>6. Above(a(p + 1))
    <3>1. CASE p + 1 = q
      BY <1>1, <1>11, <3>1
    <3>2. CASE p + 1 < q
      <4>1. \A k \in Within(p + 1) : Above(k)
        BY <2>2, <2>4, <3>2 DEF Bad
      <4> QED
        BY <1>10, <2>4, <4>1
    <3> QED
      BY <2>4, <3>1, <3>2
  <2>7. PICK k \in Within(p) : ~Above(k)
    BY <2>3
  <2>8. AboveLine(P, a(p), s(p), x(p), k) /\ NoSteeper(s(p), x(p), s(q), x(q))
    BY <1>1, <1>6, <1>12, <2>3, <2>4, <2>7
  <2>9. /\ a(q) \in 0..n /\ s(q) \in Int /\ x(q) \in Nat \ {0}
        /\ a(p) \in 0..n /\ e(p) \in 0..n /\ e(p) = a(p) + x(p)
        /\ s(p) \in Int /\ x(p) \in Nat \ {0} /\ k \in a(p)..e(p)
    BY <1>1, <1>10, <2>3, <2>7
  <2>10. Between(P, a(p), e(p), s(p)) /\ Above(e(p))
    BY <1>3, <2>3, <2>5, <2>6
  <2>11. Above(k)
    BY <2>8, <2>9, <2>10, AboveGoesBack
  <2> QED
    BY <2>7, <2>11
<1>15. \E p \in 1..len : m \in Within(p)
  <2>1. CASE m = 0
    <3>1. 1 \in 1..len
      BY <1>1
    <3>2. a(1) \in Within(1) /\ a(1) = 0
      BY <1>8, <1>10, <3>1
    <3> QED
      BY <2>1, <3>1, <3>2
  <2>2. CASE \E p \in 1..len : m \in (a(p) + 1)..e(p)
    <3>1. PICK p \in 1..len : m \in (a(p) + 1)..e(p)
      BY <2>2
    <3>2. a(p) \in Int /\ e(p) \in Int
      BY <1>10
    <3> QED
      BY <3>1, <3>2
  <2> QED
    BY <1>9, <2>1, <2>2
<1>16. PICK p \in 1..len : m \in Within(p)
  BY <1>15
<1>17. p \in q..len \/ (p \in 1..q /\ p < q)
  BY <1>1
<1>18. Above(m)
  BY <1>13, <1>14, <1>16, <1>17
<1> QED
  BY <1>7, <1>18

\* The least and the greatest of integers.
LEMMA LeastOverRange ==
    ASSUME NEW n \in Nat, NEW i \in 1..n, NEW g, \A k \in i..n : g[k] \in Int
    PROVE  \E k \in i..n : \A l \in i..n : g[k] <= g[l]
<1> DEFINE Least(m) == \E k \in i..m : \A l \in i..m : g[k] <= g[l]
           Bad == {m \in i..n : ~Least(m)}
<1> SUFFICES ASSUME Bad # {} PROVE FALSE
  <2>1. n \in i..n
    OBVIOUS
  <2> QED
    BY <2>1
<1>1. Bad \in SUBSET Nat
  OBVIOUS
<1> HIDE DEF Bad
<1>2. PICK m \in Bad : \A l \in Bad : m <= l
  BY <1>1, LeastMember
<1>3. m \in i..n /\ ~Least(m)
  BY <1>2 DEF Bad
<1>4. m # i
  <2> SUFFICES ASSUME m = i PROVE FALSE
    OBVIOUS
  <2>1. i \in i..m /\ \A l \in i..m : l = i
    OBVIOUS
  <2>2. g[i] \in Int
    OBVIOUS
  <2> QED
    BY <1>3, <2>1, <2>2
<1>5. m - 1 \in i..n /\ ~(m <= m - 1) /\ m \in i..m
  BY <1>3, <1>4
<1>6. Least(m - 1)
  BY <1>2, <1>5 DEF Bad
<1>7. PICK k \in i..(m - 1) : \A l \in i..(m - 1) : g[k] <= g[l]
  BY <1>6
<1>8. k \in i..m /\ k \in i..n /\ m \in i..n /\ \A l \in i..m : l \in i..(m - 1) \/ l = m
  BY <1>3
<1>9. g[k] \in Int /\ g[m] \in Int /\ \A l \in i..(m - 1) : g[l] \in Int
  BY <1>3, <1>8
<1>10. CASE g[k] <= g[m]
  <2>1. \A l \in i..m : g[k] <= g[l]
    BY <1>7, <1>8, <1>10
  <2> QED
    BY <1>3, <1>8, <2>1
<1>11. CASE ~(g[k] <= g[m])
  <2>1. \A l \in i..m : g[m] <= g[l]
    <3> SUFFICES ASSUME NEW l \in i..m PROVE g[m] <= g[l]
      OBVIOUS
    <3>1. CASE l = m
      BY <1>9, <3>1
    <3>2. CASE l \in i..(m - 1)
      <4>1. g[k] <= g[l] /\ g[l] \in Int
        BY <1>7, <1>9, <3>2
      <4> QED
        BY <1>9, <1>11, <4>1
    <3> QED
      BY <1>8, <3>1, <3>2
  <2> QED
    BY <1>3, <1>5, <2>1
<1> QED
  BY <1>10, <1>11

\* What Min and Max choose.
LEMMA MinIsLeast ==
    ASSUME NEW S \in SUBSET Int, \E x \in S : \A y \in S : x <= y
    PROVE  Min(S) \in S /\ \A y \in S : Min(S) <= y
BY DEF Min

LEMMA MaxIsGreatest ==
    ASSUME NEW S \in SUBSET Int, \E x \in S : \A y \in S : y <= x
    PROVE  Max(S) \in S /\ \A y \in S : y <= Max(S)
<1>1. PICK x \in S : \A y \in S : x >= y
  OBVIOUS
<1>2. Max(S) \in S /\ \A y \in S : Max(S) >= y
  BY <1>1 DEF Max
<1> QED
  BY <1>2

\* The mean of the values from j to k, and what the formula takes of them.
MeanFrom(values, j, k) == SumFunctionOnSet(values, j..k) \div (k - j + 1)

\* Where one mean is the least of its row and the greatest of its column, it is the value.
LEMMA FitOf ==
    ASSUME NEW n \in Nat, NEW values \in [1..n -> Int], NEW i \in 1..n, NEW f \in 1..i,
           NEW e \in i..n, NEW v \in Int,
           \A j \in 1..i : \A k \in i..n : MeanFrom(values, j, k) \in Int,
           MeanFrom(values, f, e) = v,
           \A k \in i..n : v <= MeanFrom(values, f, k),
           \A j \in 1..i : MeanFrom(values, j, e) <= v
    PROVE  IsotonicFit(values)[i] = v
<1> DEFINE Means(j) == {MeanFrom(values, j, k) : k \in i..n}
           S == {Min(Means(j)) : j \in 1..i}
<1>1. IsotonicFit(values)[i] = Max(S)
  <2>1. DOMAIN values = 1..n /\ Len(values) = n
    OBVIOUS
  <2> QED
    BY <2>1 DEF IsotonicFit, MeanFrom
<1>2. ASSUME NEW j \in 1..i
      PROVE  /\ Min(Means(j)) \in Means(j) /\ Min(Means(j)) \in Int
             /\ \A y \in Means(j) : Min(Means(j)) <= y
  <2> DEFINE g == [k \in i..n |-> MeanFrom(values, j, k)]
  <2>1. \A k \in i..n : g[k] = MeanFrom(values, j, k) /\ g[k] \in Int
    OBVIOUS
  <2>2. \E k \in i..n : \A l \in i..n : g[k] <= g[l]
    <3> HIDE DEF g
    <3> QED
      BY <2>1, LeastOverRange
  <2>3. Means(j) \in SUBSET Int
    OBVIOUS
  <2>4. \E x \in Means(j) : \A y \in Means(j) : x <= y
    BY <2>1, <2>2
  <2> HIDE DEF Means
  <2> QED
    BY <2>3, <2>4, MinIsLeast
<1>3. e \in i..n /\ f \in 1..i
  OBVIOUS
<1>4. Min(Means(f)) = v
  <2>1. v \in Means(f)
    BY <1>3
  <2>2. \A y \in Means(f) : v <= y
    BY <1>3
  <2> HIDE DEF Means
  <2>3. Min(Means(f)) <= v /\ v <= Min(Means(f)) /\ Min(Means(f)) \in Int
    BY <1>2, <1>3, <2>1, <2>2
  <2> QED
    BY <2>3
<1>5. \A j \in 1..i : Min(Means(j)) \in Int /\ Min(Means(j)) <= v
  <2> SUFFICES ASSUME NEW j \in 1..i PROVE Min(Means(j)) \in Int /\ Min(Means(j)) <= v
    OBVIOUS
  <2>1. MeanFrom(values, j, e) \in Means(j) /\ MeanFrom(values, j, e) <= v
        /\ MeanFrom(values, j, e) \in Int
    BY <1>3
  <2> HIDE DEF Means
  <2>2. Min(Means(j)) <= MeanFrom(values, j, e) /\ Min(Means(j)) \in Int
    BY <1>2, <2>1
  <2> QED
    BY <2>1, <2>2
<1> HIDE DEF Means
<1>6. v \in S /\ S \in SUBSET Int /\ \A y \in S : y <= v
  BY <1>3, <1>4, <1>5
<1> HIDE DEF S
<1>7. Max(S) \in S /\ \A y \in S : y <= Max(S)
  BY <1>6, MaxIsGreatest
<1>8. Max(S) <= v /\ v <= Max(S) /\ Max(S) \in Int
  BY <1>6, <1>7
<1> QED
  BY <1>1, <1>8

\* Quotients are in the order of the slopes.
LEMMA QuotientsKeepOrder ==
    ASSUME NEW s \in Int, NEW t \in Int, NEW x \in Nat \ {0}, NEW y \in Nat \ {0},
           s * y <= t * x
    PROVE  s \div x \in Int /\ t \div y \in Int /\ s \div x <= t \div y
<1> DEFINE a == [first |-> 1, last |-> x, sum |-> s]
           b == [first |-> 1, last |-> y, sum |-> t]
<1>1. a \in Block /\ b \in Block /\ a.first <= a.last /\ b.first <= b.last
  BY DEF Block
<1>2. Size(a) = x /\ Size(b) = y /\ a.sum = s /\ b.sum = t
  BY DEF Size
<1> HIDE DEF a, b
<1>3. ~Exceeds(a, b)
  <2>1. s * y \in Int /\ t * x \in Int
    OBVIOUS
  <2> QED
    BY <1>2, <2>1 DEF Exceeds
<1>4. Mean(a) \in Int /\ Mean(b) \in Int /\ Mean(a) <= Mean(b)
  BY <1>1, <1>3, MeansKeepOrder
<1> QED
  BY <1>2, <1>4 DEF Mean

\* The mean of a final block is the value of the formula at each of its positions.
LEMMA BlockIsFit ==
    ASSUME NEW n \in Nat, NEW values \in [1..n -> Int], NEW P \in [0..n -> Int],
           TotalsOf(P, values, n), NEW blocks, Partition(blocks, n),
           InOrderUpTo(blocks, Len(blocks)), Chords(P, blocks),
           NEW q \in 1..Len(blocks), NEW i \in blocks[q].first..blocks[q].last
    PROVE  IsotonicFit(values)[i] = Mean(blocks[q])
<1> DEFINE f == blocks[q].first
           e == blocks[q].last
           s == blocks[q].sum
           x == Size(blocks[q])
           a == f - 1
           v == Mean(blocks[q])
<1>1. f \in 1..n /\ e \in f..n /\ s \in Int /\ x \in Nat \ {0} /\ x = e - f + 1
  BY BlocksFit DEF Size
<1>2. v = s \div x
  BY DEF Mean
<1>3. \A m \in 0..n : AboveLine(P, a, s, x, m)
  <2>1. \A m \in 0..n : OnOrOver(P, blocks[q], m)
    BY GraphIsAbove
  <2> QED
    BY <2>1 DEF OnOrOver
<1>4. s = P[e] - P[a]
  BY DEF Chords, Chord, Between
<1>5. i \in f..e
  OBVIOUS
<1> HIDE DEF f, e, s, x, v
<1>6. /\ i \in 1..n /\ f \in 1..i /\ e \in i..n /\ a \in 0..n /\ e \in 0..n
      /\ x = e - a /\ a \in Int /\ e \in Int /\ P[a] \in Int /\ P[e] \in Int
  BY <1>1, <1>5
<1> HIDE DEF a
<1>7. ASSUME NEW j \in 1..n, NEW k \in j..n
      PROVE  /\ MeanFrom(values, j, k) = (P[k] - P[j - 1]) \div (k - j + 1)
             /\ P[k] - P[j - 1] \in Int /\ k - j + 1 \in Nat \ {0}
             /\ MeanFrom(values, j, k) \in Int
  <2>1. SumFunctionOnSet(values, j..k) = P[k] - P[j - 1]
    BY DEF TotalsOf
  <2>2. k \in 0..n /\ j - 1 \in 0..n /\ k - j + 1 \in Nat \ {0}
    OBVIOUS
  <2>3. P[k] - P[j - 1] \in Int
    BY <2>2
  <2> DEFINE c == P[k] - P[j - 1]
             d == k - j + 1
  <2>4. MeanFrom(values, j, k) = c \div d /\ c \in Int /\ d \in Nat \ {0}
    BY <2>1, <2>2, <2>3 DEF MeanFrom
  <2>5. c \div d \in Int
    <3> HIDE DEF c, d
    <3> QED
      BY <2>4, Division
  <2> QED
    BY <2>2, <2>3, <2>4, <2>5
<1>8. MeanFrom(values, f, e) = v
  <2>1. f \in 1..n /\ e \in f..n /\ f - 1 = a
    BY <1>1 DEF a
  <2> QED
    BY <1>1, <1>2, <1>4, <1>7, <2>1
<1>9. ASSUME NEW k \in i..n PROVE v <= MeanFrom(values, f, k)
  <2> DEFINE c == P[k] - P[a]
             d == k - a
  <2>1. k \in 0..n /\ f \in 1..n /\ k \in f..n /\ f - 1 = a /\ k - f + 1 = d
    BY <1>1, <1>6 DEF a
  <2>2. MeanFrom(values, f, k) = c \div d /\ c \in Int /\ d \in Nat \ {0}
    BY <1>7, <2>1
  <2>3. s * d <= c * x
    BY <1>3, <2>1 DEF AboveLine
  <2> HIDE DEF c, d
  <2>4. s \div x <= c \div d
    BY <1>1, <2>2, <2>3, QuotientsKeepOrder
  <2> QED
    BY <1>2, <2>2, <2>4
<1>10. ASSUME NEW j \in 1..i PROVE MeanFrom(values, j, e) <= v
  <2> DEFINE h == j - 1
             c == P[e] - P[h]
             d == e - h
             u == P[h] - P[a]
             m == h - a
  <2>1. h \in 0..n /\ j \in 1..n /\ e \in j..n /\ e - j + 1 = d /\ m \in Int /\ d = x - m
    BY <1>1, <1>6
  <2>2. MeanFrom(values, j, e) = c \div d /\ c \in Int /\ d \in Nat \ {0}
    BY <1>7, <2>1
  <2>3. s * m <= u * x
    BY <1>3, <2>1 DEF AboveLine
  <2>4. u \in Int /\ c = s - u
    <3>1. P[h] \in Int
      BY <2>1
    <3> DEFINE w == P[h]
               w0 == P[a]
               w1 == P[e]
    <3>2. w \in Int /\ w0 \in Int /\ w1 \in Int /\ s = w1 - w0 /\ u = w - w0 /\ c = w1 - w
      BY <1>4, <1>6, <3>1
    <3> HIDE DEF w, w0, w1, u, c
    <3> QED
      BY <3>2
  <2> HIDE DEF c, d, u, m, h
  <2>5. c * x <= s * d
    <3>1. c * x = s * x - u * x /\ s * d = s * x - s * m
      BY <1>1, <2>1, <2>4
    <3>2. s * x \in Int /\ u * x \in Int /\ s * m \in Int
      BY <1>1, <2>1, <2>4
    <3> QED
      BY <2>3, <3>1, <3>2
  <2>6. c \div d <= s \div x
    BY <1>1, <2>2, <2>5, QuotientsKeepOrder
  <2> QED
    BY <1>2, <2>2, <2>6
<1>11. v \in Int
  BY <1>1, <1>2, Division
<1>12. \A j \in 1..i : \A k \in i..n : MeanFrom(values, j, k) \in Int
  <2> SUFFICES ASSUME NEW j \in 1..i, NEW k \in i..n PROVE MeanFrom(values, j, k) \in Int
    OBVIOUS
  <2>1. j \in 1..n /\ k \in j..n
    BY <1>6
  <2> QED
    BY <1>7, <2>1
<1>13. IsotonicFit(values)[i] = v
  BY <1>6, <1>8, <1>9, <1>10, <1>11, <1>12, FitOf
<1> QED
  BY <1>13 DEF v

\* So the loop computes the isotonic regression.
LEMMA PavaIsIsotonic ==
    ASSUME NEW n \in Nat \ {0}, NEW values \in [1..n -> Int]
    PROVE  \A i \in 1..n : IsotonicFit(values)[i] = Pava(values)[i]
<1> DEFINE alone == Alone(values)
           blocks == PavaFrom[<<alone, 1>>]
<1>1. PICK P \in [0..n -> Int] : TotalsOf(P, values, n)
  BY TotalsExist
<1>2. alone \in Seq(Block) /\ Len(alone) = n
      /\ \A i \in 1..n : alone[i] = [first |-> i, last |-> i, sum |-> values[i]]
  <2>1. alone = [i \in 1..n |-> [first |-> i, last |-> i, sum |-> values[i]]]
    BY DEF Alone
  <2>2. \A i \in 1..n : [first |-> i, last |-> i, sum |-> values[i]] \in Block
    BY DEF Block
  <2>3. alone \in [1..n -> Block]
    BY <2>1, <2>2
  <2> QED
    BY <2>1, <2>3
<1>3. \A i \in 1..n : Pava(values)[i] = MeanIn(blocks, i)
  BY DEF Pava
<1> HIDE DEF alone
<1>4. <<alone, 1>> \in Pools
  BY <1>2 DEF Pools
<1>5. PavaInv(<<alone, 1>>, n)
  <2>1. Partition(alone, n)
    BY <1>2 DEF Partition
  <2>2. InOrderUpTo(alone, 1)
    BY DEF InOrderUpTo
  <2> QED
    BY <2>1, <2>2 DEF PavaInv
<1>6. Chords(P, alone)
  <2> SUFFICES ASSUME NEW i \in 1..n PROVE Chord(P, alone[i])
    BY <1>2 DEF Chords
  <2>1. alone[i].first = i /\ alone[i].last = i /\ alone[i].sum = values[i]
    BY <1>2
  <2>2. Size(alone[i]) = 1
    BY <2>1 DEF Size
  <2>3. /\ i \in 0..n /\ i - 1 \in 0..n /\ values[i] = P[i] - P[i - 1] /\ values[i] \in Int
    BY <1>1 DEF TotalsOf
  <2>4. AboveLine(P, i - 1, values[i], 1, i)
    <3>1. i - (i - 1) = 1 /\ values[i] * 1 = values[i]
      BY <2>3
    <3>2. (P[i] - P[i - 1]) * 1 = values[i]
      BY <2>3
    <3> QED
      BY <2>3, <3>1, <3>2 DEF AboveLine
  <2>5. \A m \in i..i : m = i
    OBVIOUS
  <2> QED
    BY <2>1, <2>2, <2>3, <2>4, <2>5 DEF Chord, OnOrOver, Between
<1>7. Partition(blocks, n) /\ InOrderUpTo(blocks, Len(blocks))
  <2> HIDE DEF Pools, PavaInv
  <2> QED
    BY <1>4, <1>5, PavaEndsInOrder
<1>8. Chords(P, blocks)
  <2>1. <<alone, 1>>[1] = alone
    OBVIOUS
  <2> HIDE DEF Pools, PavaInv
  <2> QED
    BY <1>4, <1>5, <1>6, <2>1, PavaEndsWithChords
<1> HIDE DEF blocks
<1>9. ASSUME NEW i \in 1..n PROVE IsotonicFit(values)[i] = Pava(values)[i]
  <2> DEFINE b == CHOOSE b \in {blocks[j] : j \in DOMAIN blocks} : i \in b.first..b.last
  <2>1. DOMAIN blocks = 1..Len(blocks)
    BY <1>7 DEF Partition
  <2>2. \E j \in 1..Len(blocks) : i \in blocks[j].first..blocks[j].last
    BY <1>7, PartitionCovers
  <2>3. b \in {blocks[j] : j \in DOMAIN blocks} /\ i \in b.first..b.last
    BY <2>1, <2>2
  <2>4. MeanIn(blocks, i) = Mean(b)
    BY DEF MeanIn, Mean
  <2> HIDE DEF b
  <2>5. PICK q \in 1..Len(blocks) : b = blocks[q]
    BY <2>1, <2>3
  <2>6. IsotonicFit(values)[i] = Mean(blocks[q])
    <3>1. i \in blocks[q].first..blocks[q].last
      BY <2>3, <2>5
    <3> QED
      BY <1>1, <1>7, <1>8, <3>1, BlockIsFit, SMTT(30)
  <2> QED
    BY <1>3, <2>4, <2>5, <2>6
<1> QED
  BY <1>9

\* The points of a curve, from sorted pairs.
Isotonic(curve, pairs) ==
    LET fit == IsotonicFit([k \in DOMAIN pairs |-> pairs[k].actual])
    IN  /\ Points(curve) = {pairs[k].predicted : k \in DOMAIN pairs}
        /\ \A k \in DOMAIN pairs :
              (k > 1 => pairs[k - 1].predicted < pairs[k].predicted) =>
                  curve[pairs[k].predicted] = Clamp(fit[k])

\* A curve that has points has those of the fit.
LEMMA CurvePointsAreFit ==
    ASSUME NEW labelled \in Seq(Label), NEW copy \in Copy,
           CurveFor(labelled, copy) # NoCurve
    PROVE  Isotonic(CurveFor(labelled, copy), SortedPairs(Pairs(labelled, copy)))
<1> DEFINE pairs == Pairs(labelled, copy)
           curve == BuildCurve(pairs)
           sorted == SortedPairs(pairs)
           n == Len(pairs)
           values == [k \in DOMAIN sorted |-> sorted[k].actual]
           fitted == Pava(values)
           FirstOf(x) == Min({k \in DOMAIN sorted : sorted[k].predicted = x})
           predictions == {sorted[k].predicted : k \in DOMAIN sorted}
<1>1. pairs \in Seq(Pair)
  BY PairTypes
<1>2. ~(n < MinPairs) /\ CurveFor(labelled, copy) = curve
  BY DEF CurveFor
<1> HIDE DEF pairs
<1>3. n \in Nat \ {0} /\ sorted \in Seq(Pair) /\ DOMAIN sorted = 1..n
  BY <1>1, <1>2, PairsAreSorted DEF MinPairs
<1>4. \A j, k \in 1..n : j <= k => sorted[j].predicted <= sorted[k].predicted
  BY <1>1, <1>3, PairsAreSorted
<1>5. curve = [x \in Confidences |->
                 IF x \in predictions THEN Clamp(fitted[FirstOf(x)]) ELSE NoPoint]
  BY DEF BuildCurve
<1> HIDE DEF n, sorted, curve
<1>6. \A k \in 1..n : /\ sorted[k] \in Pair /\ sorted[k].actual \in Int
                      /\ sorted[k].predicted \in Confidences /\ sorted[k].predicted \in Int
  <2>1. \A k \in 1..n : sorted[k] \in Pair
    BY <1>3
  <2> QED
    BY <2>1 DEF Pair, Confidences
<1>7. values \in [1..n -> Int]
  BY <1>3, <1>6
<1>8. \A k \in 1..n : fitted[k] \in Int /\ IsotonicFit(values)[k] = fitted[k]
  <2> HIDE DEF values
  <2>1. NotDecreasing(fitted, n)
    BY <1>3, <1>7, PavaFits
  <2>2. \A k \in 1..n : IsotonicFit(values)[k] = fitted[k]
    BY <1>3, <1>7, PavaIsIsotonic
  <2> QED
    BY <2>1, <2>2 DEF NotDecreasing
<1> HIDE DEF fitted
<1>9. \A x \in predictions : /\ x \in Confidences
                             /\ FirstOf(x) \in 1..n /\ sorted[FirstOf(x)].predicted = x
                             /\ \A k \in 1..n : sorted[k].predicted = x => FirstOf(x) <= k
  <2> SUFFICES ASSUME NEW x \in predictions
               PROVE  /\ x \in Confidences
                      /\ FirstOf(x) \in 1..n /\ sorted[FirstOf(x)].predicted = x
                      /\ \A k \in 1..n : sorted[k].predicted = x => FirstOf(x) <= k
    OBVIOUS
  <2> DEFINE T == {k \in DOMAIN sorted : sorted[k].predicted = x}
  <2>1. T \in SUBSET Nat /\ T # {} /\ x \in Confidences
    BY <1>3, <1>6
  <2>2. \E k \in T : \A l \in T : k <= l
    <3> HIDE DEF T
    <3> QED
      BY <2>1, LeastMember
  <2>3. Min(T) \in T /\ \A l \in T : Min(T) <= l
    <3> HIDE DEF T
    <3> QED
      BY <2>2 DEF Min
  <2>4. FirstOf(x) = Min(T)
    OBVIOUS
  <2> HIDE DEF FirstOf
  <2> QED
    BY <1>3, <2>1, <2>3, <2>4
<1> HIDE DEF FirstOf, predictions
<1>10. \A x \in predictions : curve[x] = Clamp(fitted[FirstOf(x)]) /\ curve[x] # NoPoint
  <2> SUFFICES ASSUME NEW x \in predictions
               PROVE  curve[x] = Clamp(fitted[FirstOf(x)]) /\ curve[x] # NoPoint
    OBVIOUS
  <2>1. curve[x] = Clamp(fitted[FirstOf(x)])
    BY <1>5, <1>9
  <2>2. Clamp(fitted[FirstOf(x)]) \in Confidences
    BY ClampTypes
  <2>3. NoPoint \notin Confidences
    BY DEF NoPoint, Confidences
  <2> QED
    BY <2>1, <2>2, <2>3
<1>11. Points(curve) = predictions
  <2>1. \A x \in Confidences : x \notin predictions => curve[x] = NoPoint
    BY <1>5
  <2> QED
    BY <1>9, <1>10, <2>1 DEF Points
<1>12. ASSUME NEW k \in 1..n, k > 1 => sorted[k - 1].predicted < sorted[k].predicted
       PROVE  curve[sorted[k].predicted] = Clamp(IsotonicFit(values)[k])
  <2> DEFINE x == sorted[k].predicted
  <2>1. x \in predictions
    BY <1>3 DEF predictions
  <2>2. FirstOf(x) \in 1..n /\ sorted[FirstOf(x)].predicted = x /\ FirstOf(x) <= k
    BY <1>9, <2>1
  <2>3. FirstOf(x) = k
    <3> SUFFICES ASSUME FirstOf(x) < k PROVE FALSE
      BY <2>2
    <3>1. k - 1 \in 1..n /\ FirstOf(x) <= k - 1 /\ k > 1
      BY <1>3, <2>2
    <3>2. x <= sorted[k - 1].predicted /\ sorted[k - 1].predicted < x
      BY <1>4, <1>12, <2>2, <3>1
    <3>3. x \in Int /\ sorted[k - 1].predicted \in Int
      BY <1>6, <3>1
    <3> QED
      BY <3>2, <3>3
  <2> QED
    BY <1>8, <1>10, <2>1, <2>3
<1>13. Isotonic(curve, sorted)
  <2>1. predictions = {sorted[k].predicted : k \in DOMAIN sorted}
    BY DEF predictions
  <2> QED
    BY <1>3, <1>11, <1>12, <2>1 DEF Isotonic
<1> QED
  BY <1>2, <1>13 DEF sorted, pairs

\* CurveIsIsotonic: whatever the labels are, and in whatever order they came in.
THEOREM CurveIsRegression == Spec => CurveIsIsotonic
<1>1. TypeOK /\ [Next]_vars
         => [\A s \in Scanners : CurveStep(s) /\ scan'[s].curve # NoCurve =>
                Isotonic(scan'[s].curve, StepPairs(s))]_vars
  <2> SUFFICES ASSUME TypeOK, Next, NEW s \in Scanners, CurveStep(s),
                      scan'[s].curve # NoCurve
               PROVE  Isotonic(scan'[s].curve, StepPairs(s))
    BY DEF vars
  <2>1. scan[s].pc = "curve" /\ scan'[s].pc = "calibrate"
    BY DEF CurveStep
  <2>2. ScanCurve(s)
    <3>1. \A t \in Scanners \ {s} : ~ScanStep(t)
      <4> SUFFICES ASSUME NEW t \in Scanners \ {s}, ScanStep(t) PROVE FALSE
        OBVIOUS
      <4>1. scan'[s] = scan[s]
        BY DEF TypeOK, ScanStep, ScanRead, ScanDecay, ScanCurve, ScanCalibrate, ScanAudit,
               ScanFails
      <4> QED
        BY <2>1, <4>1
    <3>2. ScanStep(s)
      BY <2>1, <3>1 DEF Next, RecordFeedback, ReviewRead, ReviewWrite, DayPasses
    <3>3. ~ScanRead(s) /\ ~ScanDecay(s) /\ ~ScanCalibrate(s) /\ ~ScanAudit(s)
      BY <2>1 DEF ScanRead, ScanDecay, ScanCalibrate, ScanAudit
    <3>4. ~ScanFails(s)
      BY <2>1 DEF TypeOK, ScanFails, Idle
    <3> QED
      BY <3>2, <3>3, <3>4 DEF ScanStep
  <2>3. /\ scan'[s].curve = CurveFor(labels, scan[s].copy)
        /\ labels \in Seq(Label) /\ scan[s].copy \in Copy
    BY <2>2, RunningLocals DEF ScanCurve, TypeOK, Running
  <2> QED
    BY <2>3, CurvePointsAreFit DEF StepPairs
<1> QED
  BY <1>1, TypeCorrect, PTL DEF Spec, CurveIsIsotonic, Isotonic
=============================================================================
