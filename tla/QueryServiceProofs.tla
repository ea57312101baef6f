------------------------- MODULE QueryServiceProofs -------------------------
(***************************************************************************)
(* What QueryService does for any number of requests, workers, retries,    *)
(* lost workers and second deliveries: its types, that a text is verified  *)
(* once, that a row agrees with the response, and that it implements       *)
(* AnswerLifecycle.                                                        *)
(***************************************************************************)
EXTENDS QueryService, TLAPS

(***************************************************************************)
(* The rows of one answer.                                                 *)
(***************************************************************************)
\* R is a set of rows stored before the time c: every verified row is newer
\* than the Phase A row, of which there is one, and there is a newest row.
Good(R, c) ==
    /\ \A r \in R : r.at < c /\ r.checks = IF r.phase = "B" THEN 1 ELSE 0
    /\ \A r, s \in R : r.phase = "B" /\ s.phase = "A" => s.at < r.at
    /\ \A r, s \in R : r.phase = "A" /\ s.phase = "A" => r = s
    /\ R # {} => (\E r \in R : Newest(R, r)) /\ (\E r \in R : r.phase = "A")

\* r is a verified row about to be appended to R.
Fresh(r, R, c) ==
    /\ r.phase = "B"
    /\ r.checks = 1
    /\ r.at < c
    /\ \A s \in R : s.phase = "A" => s.at < r.at

Verifieds(R) == {r \in R : r.phase = "B"}

\* With rows like these, polling shows whether there is a verified row.
LEMMA ViewOfGood ==
    ASSUME NEW R \in SUBSET Row, NEW c \in Nat, Good(R, c)
    PROVE  View(R) = IF Verifieds(R) # {} THEN "verified"
                     ELSE IF R = {} THEN "nothing" ELSE "provisional"
<1>1. CASE Verifieds(R) # {}
  <2>1. PICK b \in R : b.phase = "B"
    BY <1>1 DEF Verifieds
  <2>2. PICK r \in R : Newest(R, r)
    BY <2>1 DEF Good
  <2>3. r.phase = "B"
    <3>1. b.at <= r.at /\ r.at \in Nat /\ b.at \in Nat /\ r.phase \in {"A", "B"}
      BY <2>1, <2>2 DEF Newest, Row
    <3>2. r.phase = "A" => r.at < b.at
      BY <2>1 DEF Good
    <3> QED BY <3>1, <3>2
  <2> QED BY <1>1, <2>2, <2>3 DEF View
<1>2. CASE Verifieds(R) = {}
  BY <1>2 DEF View, Verifieds
<1> QED BY <1>1, <1>2

LEMMA GoodEmpty == ASSUME NEW c \in Nat PROVE Good({}, c)
BY DEF Good

LEMMA GoodLater ==
    ASSUME NEW R \in SUBSET Row, NEW c \in Nat, Good(R, c)
    PROVE  Good(R, c + 1)
<1>1. \A r \in R : r.at < c + 1
  BY DEF Good, Row
<1> QED BY <1>1 DEF Good

LEMMA FreshLater ==
    ASSUME NEW R \in SUBSET Row, NEW c \in Nat, NEW r \in Row, Fresh(r, R, c)
    PROVE  Fresh(r, R, c + 1)
BY DEF Fresh, Row

LEMMA GoodFirst ==
    ASSUME NEW c \in Nat, NEW r \in Row, r.phase = "A", r.checks = 0, r.at < c
    PROVE  Good({r}, c)
<1>1. Newest({r}, r)
  BY DEF Newest, Row
<1> QED BY <1>1 DEF Good

LEMMA GoodAppend ==
    ASSUME NEW R \in SUBSET Row, NEW c \in Nat, NEW r \in Row,
           Good(R, c), Fresh(r, R, c), R # {}
    PROVE  Good(R \cup {r}, c)
<1> DEFINE S == R \cup {r}
<1>1. \A s \in S : s.at < c /\ s.checks = IF s.phase = "B" THEN 1 ELSE 0
  BY DEF Good, Fresh
<1>2. \A s, u \in S : s.phase = "B" /\ u.phase = "A" => u.at < s.at
  BY DEF Good, Fresh
<1>3. \A s, u \in S : s.phase = "A" /\ u.phase = "A" => s = u
  BY DEF Good, Fresh
<1>4. \E s \in S : s.phase = "A"
  BY DEF Good
<1>5. \E s \in S : Newest(S, s)
  <2>1. PICK q \in R : Newest(R, q)
    BY DEF Good
  <2>2. q.at \in Nat /\ r.at \in Nat /\ \A s \in R : s.at \in Nat
    BY DEF Row
  <2>3. CASE r.at <= q.at
    BY <2>1, <2>3 DEF Newest
  <2>4. CASE q.at < r.at
    <3>1. Newest(S, r)
      BY <2>1, <2>2, <2>4 DEF Newest
    <3> QED BY <3>1
  <2> QED BY <2>2, <2>3, <2>4
<1> QED BY <1>1, <1>2, <1>3, <1>4, <1>5 DEF Good

\* update_phase_a_phase_b_status changes nothing that matters to the others.
LEMMA GoodUpdate ==
    ASSUME NEW R \in SUBSET Row, NEW c \in Nat, NEW q \in R, NEW p \in Row,
           p.phase = q.phase, p.at = q.at, p.checks = q.checks,
           Good(R, c), q.phase = "A"
    PROVE  /\ Good((R \ {q}) \cup {p}, c)
           /\ Verifieds((R \ {q}) \cup {p}) = Verifieds(R)
           /\ \A r \in Row : Fresh(r, R, c) => Fresh(r, (R \ {q}) \cup {p}, c)
           /\ \A s \in (R \ {q}) \cup {p} : s.phase = "A" => s = p
<1> DEFINE S == (R \ {q}) \cup {p}
<1>0. \A s \in S : s.phase = "A" => s = p
  BY DEF Good
<1>1. \A s \in S : s.at < c /\ s.checks = IF s.phase = "B" THEN 1 ELSE 0
  BY DEF Good
<1>2. \A s, u \in S : s.phase = "B" /\ u.phase = "A" => u.at < s.at
  <2> SUFFICES ASSUME NEW s \in S, NEW u \in S, s.phase = "B", u.phase = "A"
               PROVE  u.at < s.at
    OBVIOUS
  <2>1. u = p /\ s \in R
    BY <1>0
  <2> QED BY <2>1 DEF Good
<1>3. \E s \in S : Newest(S, s)
  <2>1. PICK n \in R : Newest(R, n)
    BY DEF Good
  <2>2. CASE n = q
    BY <2>1, <2>2 DEF Newest
  <2>3. CASE n # q
    BY <2>1, <2>3 DEF Newest
  <2> QED BY <2>2, <2>3
<1>4. Verifieds(S) = Verifieds(R)
  BY DEF Verifieds
<1>5. \A r \in Row : Fresh(r, R, c) => Fresh(r, S, c)
  BY DEF Fresh
<1>6. Good(S, c)
  BY <1>0, <1>1, <1>2, <1>3 DEF Good
<1> QED BY <1>0, <1>4, <1>5, <1>6

-----------------------------------------------------------------------------
(***************************************************************************)
(* The inductive invariant.  It ties the locals of a call to the rows of   *)
(* its answer: what is stored before which step, and that the row a call   *)
(* or a worker is about to append is a fresh verification.                 *)
(***************************************************************************)
CallOK(f, R, c, t) ==
    /\ f.stat # "failed"
    /\ f.pc \in {"idle", "store"} => R = {}
    /\ f.pc \in {"schedule", "inlineAppend", "update", "review", "done"} => R # {}
    /\ f.pc = "store" =>
           /\ f.row.phase = "A" /\ f.row.checks = 0 /\ f.row.at < c
           /\ f.row.stat = "off" /\ f.stat = "off"
    /\ f.pc = "inlineAppend" => Fresh(f.row, R, c)
    /\ f.pc \in {"update", "review"} /\ f.stat = "complete" => Verifieds(R) # {}
    /\ f.pc \in {"review", "done"} => \A r \in R : r.phase = "A" => r.stat = f.stat
    /\ t = IF f.pc = "done" THEN f.stat ELSE "nothing"

TaskOK(f, R, c) == f.pc = "append" => R # {} /\ Fresh(f.row, R, c)

AnswersInv == \A a \in Answers : Good(rows[a], clock[a])
                              /\ CallOK(run[a], rows[a], clock[a], told[a])
TasksInv == \A w \in Workers :
    TaskOK(worker[w], rows[worker[w].msg.answer], clock[worker[w].msg.answer])

IInv == TypeOK /\ AnswersInv /\ TasksInv

Stats == {"off", "queued", "complete", "failed"}

LEMMA DefaultTypes ==
    /\ NoRow \in Row
    /\ NoRun \in Run
    /\ NoTask \in WorkerFrame
    /\ \A a \in Answers : First(ApiQueue, a) \in Message
    /\ NoTask.pc = "idle" /\ NoRun.pc = "idle" /\ NoRun.stat = "off"
<1>1. NoRow \in Row
  BY DEF NoRow, Row
<1>2. \A a \in Answers : First(ApiQueue, a) \in Message /\ First(WorkerQueue, a) \in Message
  BY BoundsAssumption DEF First, Message
<1>3. NoRun \in Run /\ NoRun.pc = "idle" /\ NoRun.stat = "off"
  BY <1>1 DEF NoRun, Run, RunSteps
<1>4. NoTask \in WorkerFrame /\ NoTask.pc = "idle"
  BY <1>1, <1>2, ChoicesAssumption DEF NoTask, WorkerFrame, WorkerSteps
<1> QED BY <1>1, <1>2, <1>3, <1>4

LEMMA InitInductive == Init => IInv
<1> SUFFICES ASSUME Init PROVE IInv
  OBVIOUS
<1>1. TypeOK
  BY DefaultTypes, BoundsAssumption DEF Init, TypeOK
<1>2. AnswersInv
  BY DefaultTypes DEF Init, AnswersInv, Good, CallOK
<1>3. TasksInv
  BY DefaultTypes DEF Init, TasksInv, TaskOK
<1> QED BY <1>1, <1>2, <1>3 DEF IInv

(***************************************************************************)
(* How a step on one answer, or on one worker, preserves the invariant.    *)
(***************************************************************************)
\* A step of the call a that leaves its rows and the workers alone.
LEMMA CallStep ==
    ASSUME IInv, NEW a \in Answers, NEW f \in Run,
           NEW t \in {"nothing", "off", "queued", "complete", "failed"},
           NEW c \in {clock[a], clock[a] + 1},
           run' = [run EXCEPT ![a] = f], told' = [told EXCEPT ![a] = t],
           rows' = rows, clock' = [clock EXCEPT ![a] = c],
           worker' = worker, UNCHANGED <<scheduler, gaveUp, lost, duplicates>>,
           broker' \in [Message -> Nat],
           CallOK(f, rows[a], c, t)
    PROVE  IInv'
<1>0. /\ rows \in [Answers -> SUBSET Row] /\ clock \in [Answers -> Nat]
      /\ run \in [Answers -> Run] /\ worker \in [Workers -> WorkerFrame]
  BY DEF IInv, TypeOK
<1>1. TypeOK'
  BY <1>0 DEF IInv, TypeOK
<1>2. ASSUME NEW b \in Answers
      PROVE  Good(rows[b], clock[b])' /\ CallOK(run[b], rows[b], clock[b], told[b])'
  <2>1. Good(rows[b], clock[b]) /\ CallOK(run[b], rows[b], clock[b], told[b])
    BY DEF IInv, AnswersInv
  <2>2. CASE b # a
    <3>1. run'[b] = run[b] /\ told'[b] = told[b] /\ clock'[b] = clock[b]
      BY <2>2, <1>0 DEF IInv, TypeOK
    <3> QED BY <2>1, <3>1
  <2>3. CASE b = a
    <3>1. run'[a] = f /\ told'[a] = t /\ clock'[a] = c
      BY <1>0 DEF IInv, TypeOK
    <3>2. Good(rows[a], c)
      BY <2>1, <2>3, <1>0, GoodLater
    <3> QED BY <2>3, <3>1, <3>2
  <2> QED BY <2>2, <2>3
<1>3. TasksInv'
  <2> SUFFICES ASSUME NEW w \in Workers
               PROVE  TaskOK(worker[w], rows[worker[w].msg.answer],
                             clock'[worker[w].msg.answer])
    BY DEF TasksInv
  <2> DEFINE b == worker[w].msg.answer
  <2>1. TaskOK(worker[w], rows[b], clock[b])
    BY DEF IInv, TasksInv
  <2>2. b \in Answers /\ worker[w].row \in Row
    BY <1>0 DEF WorkerFrame, Message
  <2>3. clock'[b] \in {clock[b], clock[b] + 1}
    BY <1>0, <2>2
  <2>4. rows[b] \in SUBSET Row /\ clock[b] \in Nat
    BY <1>0, <2>2
  <2>5. TaskOK(worker[w], rows[b], clock[b] + 1)
    BY <2>1, <2>2, <2>4, FreshLater DEF TaskOK
  <2> QED BY <2>1, <2>3, <2>5
<1> QED BY <1>1, <1>2, <1>3 DEF IInv, AnswersInv

\* A step of the call a that changes its rows to S.
LEMMA CallWrites ==
    ASSUME IInv, NEW a \in Answers, NEW f \in Run, NEW S \in SUBSET Row,
           run' = [run EXCEPT ![a] = f], rows' = [rows EXCEPT ![a] = S],
           UNCHANGED <<scheduler, clock, told, broker, worker, gaveUp, lost, duplicates>>,
           Good(S, clock[a]), CallOK(f, S, clock[a], told[a]),
           \A r \in Row : rows[a] # {} /\ Fresh(r, rows[a], clock[a]) =>
               S # {} /\ Fresh(r, S, clock[a])
    PROVE  IInv'
<1>0. /\ rows \in [Answers -> SUBSET Row] /\ run \in [Answers -> Run]
      /\ worker \in [Workers -> WorkerFrame]
  BY DEF IInv, TypeOK
<1>1. TypeOK'
  BY <1>0 DEF IInv, TypeOK
<1>2. AnswersInv'
  <2> SUFFICES ASSUME NEW b \in Answers
               PROVE  Good(rows[b], clock[b])'
                      /\ CallOK(run[b], rows[b], clock[b], told[b])'
    BY DEF AnswersInv
  <2>1. CASE b # a
    <3>1. run'[b] = run[b] /\ rows'[b] = rows[b]
      BY <2>1, <1>0
    <3> QED BY <3>1 DEF IInv, AnswersInv
  <2>2. CASE b = a
    <3>1. run'[a] = f /\ rows'[a] = S
      BY <1>0
    <3> QED BY <2>2, <3>1
  <2> QED BY <2>1, <2>2
<1>3. TasksInv'
  <2> SUFFICES ASSUME NEW w \in Workers
               PROVE  TaskOK(worker[w], rows'[worker[w].msg.answer],
                             clock[worker[w].msg.answer])
    BY DEF TasksInv
  <2> DEFINE b == worker[w].msg.answer
  <2>1. TaskOK(worker[w], rows[b], clock[b])
    BY DEF IInv, TasksInv
  <2>2. b \in Answers /\ worker[w].row \in Row
    BY <1>0 DEF WorkerFrame, Message
  <2>3. rows'[b] = IF b = a THEN S ELSE rows[b]
    BY <1>0, <2>2
  <2> QED BY <2>1, <2>2, <2>3 DEF TaskOK
<1> QED BY <1>1, <1>2, <1>3 DEF IInv

\* A step of the worker w that leaves the rows alone.
LEMMA WorkerStep ==
    ASSUME IInv, NEW w \in Workers, NEW f \in WorkerFrame,
           NEW b \in Answers, NEW c \in {clock[b], clock[b] + 1},
           worker' = [worker EXCEPT ![w] = f], clock' = [clock EXCEPT ![b] = c],
           UNCHANGED <<scheduler, rows, run, told>>,
           broker' \in [Message -> Nat], gaveUp' \subseteq Answers,
           lost' \in 0..MaxLost, duplicates' \in 0..MaxDuplicates,
           f.pc = "append" => f.msg.answer = b /\ TaskOK(f, rows[b], c)
    PROVE  IInv'
<1>0. /\ rows \in [Answers -> SUBSET Row] /\ clock \in [Answers -> Nat]
      /\ run \in [Answers -> Run] /\ worker \in [Workers -> WorkerFrame]
  BY DEF IInv, TypeOK
<1>c. \A a \in Answers : /\ rows[a] \in SUBSET Row /\ clock[a] \in Nat
                         /\ clock'[a] \in {clock[a], clock[a] + 1}
  BY <1>0
<1>1. TypeOK'
  BY <1>0 DEF IInv, TypeOK
<1>2. AnswersInv'
  <2> SUFFICES ASSUME NEW a \in Answers
               PROVE  /\ Good(rows[a], clock'[a])
                      /\ CallOK(run[a], rows[a], clock'[a], told[a])
    BY DEF AnswersInv
  <2>1. Good(rows[a], clock[a]) /\ CallOK(run[a], rows[a], clock[a], told[a])
    BY DEF IInv, AnswersInv
  <2>2. Good(rows[a], clock[a] + 1)
    BY <2>1, <1>c, GoodLater
  <2>3. CallOK(run[a], rows[a], clock[a] + 1, told[a])
    <3>1. run[a].row \in Row /\ run[a].row.at \in Nat
      BY <1>0 DEF Run, Row
    <3>2. Fresh(run[a].row, rows[a], clock[a]) =>
              Fresh(run[a].row, rows[a], clock[a] + 1)
      BY <1>c, <3>1, FreshLater
    <3>3. run[a].row.at < clock[a] => run[a].row.at < clock[a] + 1
      BY <1>c, <3>1
    <3> QED BY <2>1, <3>2, <3>3 DEF CallOK
  <2> QED BY <2>1, <2>2, <2>3, <1>c
<1>3. TasksInv'
  <2> SUFFICES ASSUME NEW v \in Workers
               PROVE  TaskOK(worker'[v], rows[worker'[v].msg.answer],
                             clock'[worker'[v].msg.answer])
    BY DEF TasksInv
  <2>1. CASE v = w
    <3>1. worker'[v] = f /\ clock'[b] = c
      BY <2>1, <1>0
    <3> QED BY <3>1 DEF TaskOK
  <2>2. CASE v # w
    <3> DEFINE a == worker[v].msg.answer
    <3>1. worker'[v] = worker[v] /\ TaskOK(worker[v], rows[a], clock[a])
      BY <2>2, <1>0 DEF IInv, TasksInv
    <3>2. a \in Answers /\ worker[v].row \in Row
      BY <1>0 DEF WorkerFrame, Message
    <3>3. TaskOK(worker[v], rows[a], clock[a] + 1)
      BY <3>1, <3>2, <1>c, FreshLater DEF TaskOK
    <3> QED BY <3>1, <3>2, <3>3, <1>c
  <2> QED BY <2>1, <2>2
<1> QED BY <1>1, <1>2, <1>3 DEF IInv

\* The worker appends the verified row it made.
LEMMA AppendStep ==
    ASSUME IInv, NEW w \in Workers, WorkerAppend(w)
    PROVE  IInv'
<1> DEFINE b == worker[w].msg.answer
           r == worker[w].row
           S == rows[b] \cup {r}
           f == [worker[w] EXCEPT !.pc = "ack", !.row = NoRow]
<1>0. /\ rows \in [Answers -> SUBSET Row] /\ clock \in [Answers -> Nat]
      /\ run \in [Answers -> Run] /\ worker \in [Workers -> WorkerFrame]
  BY DEF IInv, TypeOK
<1>1. b \in Answers /\ r \in Row /\ worker[w] \in WorkerFrame
  BY <1>0 DEF WorkerFrame, Message
<1>2. f \in WorkerFrame /\ f.pc = "ack"
  BY <1>1, DefaultTypes DEF WorkerFrame, WorkerSteps
<1>3. rows' = [rows EXCEPT ![b] = S] /\ worker' = [worker EXCEPT ![w] = f]
      /\ UNCHANGED <<scheduler, clock, run, told, broker, gaveUp, lost, duplicates>>
  BY DEF WorkerAppend, otherThanTasks, apiVars
<1>4. rows[b] # {} /\ Fresh(r, rows[b], clock[b]) /\ rows[b] \in SUBSET Row
  BY <1>0, <1>1 DEF WorkerAppend, IInv, TasksInv, TaskOK
<1>5. S \in SUBSET Row /\ S # {}
  BY <1>1, <1>4
<1>6. Good(S, clock[b])
  BY <1>0, <1>1, <1>4, GoodAppend DEF IInv, AnswersInv
<1>7. \A q : Fresh(q, rows[b], clock[b]) => Fresh(q, S, clock[b])
  BY <1>4 DEF Fresh
<1>8. TypeOK'
  BY <1>0, <1>2, <1>3, <1>5 DEF IInv, TypeOK
<1>9. AnswersInv'
  <2> SUFFICES ASSUME NEW a \in Answers
               PROVE  /\ Good(rows'[a], clock[a])
                      /\ CallOK(run[a], rows'[a], clock[a], told[a])
    BY <1>3 DEF AnswersInv
  <2>1. Good(rows[a], clock[a]) /\ CallOK(run[a], rows[a], clock[a], told[a])
    BY DEF IInv, AnswersInv
  <2>2. CASE a # b
    BY <2>1, <2>2, <1>0, <1>3
  <2>3. CASE a = b
    <3>1. rows'[a] = S
      BY <2>3, <1>0, <1>3
    <3>2. Verifieds(rows[b]) # {} => Verifieds(S) # {}
      BY DEF Verifieds
    <3>3. \A q \in S : q.phase = "A" => q \in rows[b]
      BY <1>4, SMTT(30) DEF Fresh
    <3>4. CallOK(run[b], S, clock[b], told[b])
      BY <2>1, <2>3, <1>4, <1>5, <1>7, <3>2, <3>3 DEF CallOK
    <3> QED BY <2>3, <3>1, <3>4, <1>6
  <2> QED BY <2>2, <2>3
<1>10. TasksInv'
  <2> SUFFICES ASSUME NEW v \in Workers
               PROVE  TaskOK(worker'[v], rows'[worker'[v].msg.answer],
                             clock[worker'[v].msg.answer])
    BY <1>3 DEF TasksInv
  <2>1. CASE v = w
    <3>1. worker'[v] = f
      BY <2>1, <1>0, <1>3
    <3> QED BY <3>1, <1>2 DEF TaskOK
  <2>2. CASE v # w
    <3> DEFINE a == worker[v].msg.answer
    <3>1. worker'[v] = worker[v] /\ TaskOK(worker[v], rows[a], clock[a])
      BY <2>2, <1>0, <1>3 DEF IInv, TasksInv
    <3>2. a \in Answers
      BY <1>0 DEF WorkerFrame, Message
    <3>3. rows'[a] = IF a = b THEN S ELSE rows[a]
      BY <3>2, <1>0, <1>3
    <3> QED BY <3>1, <3>3, <1>5, <1>7 DEF TaskOK
  <2> QED BY <2>1, <2>2
<1> QED BY <1>8, <1>9, <1>10 DEF IInv

-----------------------------------------------------------------------------
(***************************************************************************)
(* Every step preserves the invariant.                                     *)
(***************************************************************************)
LEMMA RunInductive ==
    ASSUME IInv, NEW a \in Answers,
           \/ \E mode \in Modes, required \in BOOLEAN : Generate(a, mode, required)
           \/ RunStep(a)
           \/ RunFails(a)
    PROVE  IInv'
<1> DEFINE R == rows[a]
           c == clock[a]
<1>0. /\ rows \in [Answers -> SUBSET Row] /\ clock \in [Answers -> Nat]
      /\ run \in [Answers -> Run] /\ broker \in [Message -> Nat]
      /\ told \in [Answers -> {"nothing", "off", "queued", "complete", "failed"}]
  BY DEF IInv, TypeOK
<1>1. /\ Good(R, c) /\ CallOK(run[a], R, c, told[a])
      /\ R \in SUBSET Row /\ c \in Nat /\ run[a] \in Run
  BY <1>0 DEF IInv, AnswersInv
<1>2. /\ told = [told EXCEPT ![a] = told[a]]
      /\ told[a] \in {"nothing", "off", "queued", "complete", "failed"}
  BY <1>0
<1>3. clock = [clock EXCEPT ![a] = c]
  BY <1>0
<1>f. /\ run[a].pc \in RunSteps /\ run[a].mode \in Modes \cup {"off"}
      /\ run[a].required \in BOOLEAN /\ run[a].row \in Row
      /\ run[a].stat \in {"off", "queued", "complete", "failed"}
  BY <1>1 DEF Run
<1>4. ASSUME NEW mode \in Modes, NEW required \in BOOLEAN, Generate(a, mode, required)
      PROVE  IInv'
  <2> DEFINE row == [phase |-> "A", checks |-> 0, at |-> c, stat |-> "off"]
             f == [pc |-> "store", mode |-> mode, required |-> required,
                   stat |-> "off", row |-> row]
  <2>1. f \in Run
    BY <1>1 DEF Run, RunSteps, Row
  <2>2. CallOK(f, R, c + 1, told[a])
    BY <1>1, <1>4 DEF CallOK, Generate, AtStep
  <2>3. run' = [run EXCEPT ![a] = f] /\ clock' = [clock EXCEPT ![a] = c + 1]
    BY <1>4, <1>0 DEF Generate
  <2>4. UNCHANGED <<scheduler, rows, told, broker, worker, gaveUp, lost, duplicates>>
    BY <1>4 DEF Generate, taskVars
  <2> QED BY <1>0, <1>2, <2>1, <2>2, <2>3, <2>4, CallStep, ZenonT(40)
<1>5. ASSUME StoreAnswer(a) PROVE IInv'
  <2> DEFINE S == R \cup {run[a].row}
             pc == IF Wanted(run[a].mode, run[a].required) THEN "schedule" ELSE "review"
             f == [run[a] EXCEPT !.pc = pc, !.row = NoRow]
  <2>1. run[a].pc = "store" /\ run' = [run EXCEPT ![a] = f] /\ rows' = [rows EXCEPT ![a] = S]
    BY <1>5, <1>0 DEF StoreAnswer, AtStep
  <2>2. UNCHANGED <<scheduler, clock, told, broker, worker, gaveUp, lost, duplicates>>
    BY <1>5 DEF StoreAnswer, taskVars
  <2>3. R = {} /\ S = {run[a].row} /\ S \in SUBSET Row
    BY <1>1, <1>f, <2>1 DEF CallOK
  <2>4. pc \in {"schedule", "review"} /\ pc \in RunSteps
    BY DEF RunSteps
  <2>5. f \in Run /\ f.pc = pc /\ f.stat = run[a].stat
    BY <1>1, <2>4, DefaultTypes DEF Run
  <2>6. Good(S, c)
    BY <1>1, <1>f, <2>1, <2>3, GoodFirst DEF CallOK
  <2>7. CallOK(f, S, c, told[a])
    BY <1>1, <2>1, <2>3, <2>4, <2>5 DEF CallOK
  <2> QED BY <2>1, <2>2, <2>3, <2>5, <2>6, <2>7, CallWrites
<1>6. ASSUME ScheduleNoop(a) \/ ScheduleCelery(a) PROVE IInv'
  <2> DEFINE f == [run[a] EXCEPT !.pc = "update", !.stat = "queued"]
  <2>1. run[a].pc = "schedule" /\ run' = [run EXCEPT ![a] = f]
    BY <1>6, <1>0 DEF ScheduleNoop, ScheduleCelery, AtStep
  <2>2. UNCHANGED <<scheduler, rows, clock, told, worker, gaveUp, lost, duplicates>>
    BY <1>6 DEF ScheduleNoop, ScheduleCelery, taskVars
  <2>3. broker' \in [Message -> Nat]
    BY <1>6, <1>0, DefaultTypes DEF ScheduleNoop, ScheduleCelery
  <2>4. f \in Run /\ f.pc = "update" /\ f.stat = "queued"
    BY <1>1 DEF Run, RunSteps
  <2>5. CallOK(f, R, c, told[a])
    BY <1>1, <2>1, <2>4 DEF CallOK
  <2>6. told' = [told EXCEPT ![a] = told[a]] /\ clock' = [clock EXCEPT ![a] = c]
    BY <1>2, <1>3, <2>2
  <2> QED BY <1>2, <2>1, <2>2, <2>3, <2>4, <2>5, <2>6, CallStep
<1>7. ASSUME InlineRead(a) PROVE IInv'
  <2>1. PICK r \in R : NeedsVerification(R, r)
                       /\ run' = [run EXCEPT ![a] =
                              [run[a] EXCEPT !.pc = "inlineAppend", !.row = Verified(a, r)]]
    BY <1>7, <1>0 DEF InlineRead
  <2> DEFINE v == Verified(a, r)
             f == [run[a] EXCEPT !.pc = "inlineAppend", !.row = v]
  <2>2. r \in Row /\ r.phase = "A" /\ r.checks = 0
    BY <2>1, <1>1 DEF NeedsVerification, Good
  <2>3. v \in Row /\ Fresh(v, R, c + 1)
    BY <2>2, <1>1 DEF Verified, Fresh, Row, Good
  <2>4. f \in Run /\ f.pc = "inlineAppend" /\ f.row = v /\ f.stat = run[a].stat
    BY <1>1, <2>3 DEF Run, RunSteps
  <2>5. CallOK(f, R, c + 1, told[a])
    BY <1>1, <1>7, <2>3, <2>4 DEF CallOK, InlineRead, AtStep
  <2>6. clock' = [clock EXCEPT ![a] = c + 1]
        /\ UNCHANGED <<scheduler, rows, told, broker, worker, gaveUp, lost, duplicates>>
    BY <1>7, <1>0 DEF InlineRead, taskVars
  <2> QED BY <1>0, <1>2, <2>1, <2>4, <2>5, <2>6, CallStep
<1>8. ASSUME InlineAppend(a) PROVE IInv'
  <2> DEFINE S == R \cup {run[a].row}
             f == [run[a] EXCEPT !.pc = "update", !.stat = "complete", !.row = NoRow]
  <2>1. run[a].pc = "inlineAppend" /\ run' = [run EXCEPT ![a] = f]
        /\ rows' = [rows EXCEPT ![a] = S]
    BY <1>8, <1>0 DEF InlineAppend, AtStep
  <2>2. UNCHANGED <<scheduler, clock, told, broker, worker, gaveUp, lost, duplicates>>
    BY <1>8 DEF InlineAppend, taskVars
  <2>3. R # {} /\ Fresh(run[a].row, R, c) /\ S \in SUBSET Row
    BY <1>1, <1>f, <2>1 DEF CallOK
  <2>4. f \in Run /\ f.pc = "update" /\ f.stat = "complete"
    BY <1>1, DefaultTypes DEF Run, RunSteps
  <2>5. Good(S, c)
    BY <1>1, <1>f, <2>3, GoodAppend
  <2>6. Verifieds(S) # {}
    BY <2>3 DEF Fresh, Verifieds
  <2>7. CallOK(f, S, c, told[a])
    BY <1>1, <2>1, <2>4, <2>6 DEF CallOK
  <2>8. \A r \in Row : Fresh(r, R, c) => Fresh(r, S, c)
    BY <2>3 DEF Fresh
  <2> QED BY <2>1, <2>2, <2>3, <2>4, <2>5, <2>7, <2>8, CallWrites
<1>9. ASSUME UpdateStatus(a) PROVE IInv'
  <2>1. PICK q \in R : RowToUpdate(R, q)
            /\ rows' = [rows EXCEPT ![a] = (R \ {q}) \cup {[q EXCEPT !.stat = run[a].stat]}]
    BY <1>9 DEF UpdateStatus
  <2>p. PICK p \in Row : p = [q EXCEPT !.stat = run[a].stat]
    BY <1>f, <2>1, <1>1 DEF Row
  <2> DEFINE S == (R \ {q}) \cup {p}
             f == [run[a] EXCEPT !.pc = "review"]
  <2>2. q \in Row /\ q.phase = "A"
    BY <2>1, <1>1 DEF RowToUpdate, NewestOfA
  <2>3. p \in Row /\ p.phase = q.phase /\ p.at = q.at /\ p.checks = q.checks
        /\ p.stat = run[a].stat
    BY <2>p, <2>2, <1>f DEF Row
  <2>4. /\ Good(S, c) /\ Verifieds(S) = Verifieds(R)
        /\ \A r \in Row : Fresh(r, R, c) => Fresh(r, S, c)
        /\ \A s \in S : s.phase = "A" => s = p
    <3>1. /\ R \in SUBSET Row /\ c \in Nat /\ q \in R /\ p \in Row /\ p.phase = q.phase
          /\ p.at = q.at /\ p.checks = q.checks /\ Good(R, c) /\ q.phase = "A"
      BY <1>1, <2>1, <2>2, <2>3
    <3> HIDE DEF R, c
    <3> QED BY <3>1, GoodUpdate
  <2>5. f \in Run /\ f.pc = "review" /\ f.stat = run[a].stat
    BY <1>1 DEF Run, RunSteps
  <2>6. run[a].pc = "update" /\ run' = [run EXCEPT ![a] = f]
        /\ UNCHANGED <<scheduler, clock, told, broker, worker, gaveUp, lost, duplicates>>
    BY <1>9, <1>0 DEF UpdateStatus, AtStep, taskVars
  <2>7. CallOK(f, S, c, told[a])
    BY <1>1, <2>3, <2>4, <2>5, <2>6 DEF CallOK
  <2>8. S \in SUBSET Row /\ S # {}
    BY <1>1, <2>3
  <2> QED BY <2>1, <2>p, <2>4, <2>5, <2>6, <2>7, <2>8, CallWrites
<1>10. ASSUME Respond(a) PROVE IInv'
  <2> DEFINE f == [run[a] EXCEPT !.pc = "done"]
  <2>1. run[a].pc = "review" /\ run' = [run EXCEPT ![a] = f]
        /\ told' = [told EXCEPT ![a] = run[a].stat]
        /\ UNCHANGED <<scheduler, rows, clock, broker, worker, gaveUp, lost, duplicates>>
    BY <1>10, <1>0 DEF Respond, AtStep, taskVars
  <2>2. f \in Run /\ f.pc = "done" /\ f.stat = run[a].stat
    BY <1>1 DEF Run, RunSteps
  <2>3. CallOK(f, R, c, run[a].stat)
    BY <1>1, <2>1, <2>2 DEF CallOK
  <2> QED BY <1>0, <1>3, <1>f, <2>1, <2>2, <2>3, CallStep
<1>11. ASSUME RunFails(a) PROVE IInv'
  <2> DEFINE f == [run[a] EXCEPT !.pc = "failed", !.row = NoRow]
  <2>1. run[a].pc # "done" /\ run' = [run EXCEPT ![a] = f]
        /\ UNCHANGED <<scheduler, rows, clock, told, broker, worker, gaveUp, lost, duplicates>>
    BY <1>11, <1>0 DEF RunFails, InRun, taskVars
  <2>2. f \in Run /\ f.pc = "failed" /\ f.stat = run[a].stat
    BY <1>1, DefaultTypes DEF Run, RunSteps
  <2>3. CallOK(f, R, c, told[a])
    BY <1>1, <2>1, <2>2 DEF CallOK
  <2>4. told' = [told EXCEPT ![a] = told[a]] /\ clock' = [clock EXCEPT ![a] = c]
    BY <1>2, <1>3, <2>1
  <2>5. broker' \in [Message -> Nat]
    BY <1>0, <2>1
  <2> QED BY <1>2, <2>1, <2>2, <2>3, <2>4, <2>5, CallStep
<1> QED BY <1>4, <1>5, <1>6, <1>7, <1>8, <1>9, <1>10, <1>11 DEF RunStep

LEMMA WorkerInductive ==
    ASSUME IInv, NEW w \in Workers,
           TaskStep(w) \/ TaskRaises(w) \/ WorkerLost(w) \/ DeliverAgain(w)
    PROVE  IInv'
<1> DEFINE b == worker[w].msg.answer
           R == rows[b]
           c == clock[b]
<1>0. /\ rows \in [Answers -> SUBSET Row] /\ clock \in [Answers -> Nat]
      /\ worker \in [Workers -> WorkerFrame] /\ broker \in [Message -> Nat]
      /\ gaveUp \subseteq Answers /\ lost \in 0..MaxLost
      /\ duplicates \in 0..MaxDuplicates
  BY DEF IInv, TypeOK
<1>1. /\ worker[w] \in WorkerFrame /\ worker[w].msg \in Message /\ b \in Answers
      /\ worker[w].row \in Row
  BY <1>0 DEF WorkerFrame, Message
<1>2. R \in SUBSET Row /\ c \in Nat /\ Good(R, c)
  BY <1>0, <1>1 DEF IInv, AnswersInv
<1>3. clock = [clock EXCEPT ![b] = c]
  BY <1>0
<1>4. ASSUME NEW m \in Message, Receive(w, m) PROVE IInv'
  <2> DEFINE f == [worker[w] EXCEPT !.pc = "read", !.msg = m]
  <2>1. f \in WorkerFrame /\ f.pc = "read"
    BY <1>1 DEF WorkerFrame, WorkerSteps
  <2>2. worker' = [worker EXCEPT ![w] = f] /\ clock' = clock
        /\ UNCHANGED <<scheduler, rows, run, told, gaveUp, lost, duplicates>>
    BY <1>4, <1>0 DEF Receive, otherThanTasks, apiVars
  <2>3. broker' \in [Message -> Nat]
    BY <1>4, <1>0 DEF Receive
  <2> QED BY <1>0, <1>1, <1>3, <2>1, <2>2, <2>3, WorkerStep
<1>5. ASSUME WorkerRead(w) PROVE IInv'
  <2>1. PICK r \in R : NeedsVerification(R, r)
            /\ worker' = [worker EXCEPT ![w] =
                   [worker[w] EXCEPT !.pc = "append", !.row = Verified(b, r)]]
    BY <1>5, <1>0 DEF WorkerRead, Unverified
  <2> DEFINE v == Verified(b, r)
             f == [worker[w] EXCEPT !.pc = "append", !.row = v]
  <2>2. r \in Row /\ r.phase = "A" /\ r.checks = 0
    BY <2>1, <1>2 DEF NeedsVerification, Good
  <2>3. v \in Row /\ Fresh(v, R, c + 1)
    BY <2>2, <1>2 DEF Verified, Fresh, Row, Good
  <2>4. f \in WorkerFrame /\ f.pc = "append" /\ f.row = v /\ f.msg = worker[w].msg
    BY <1>1, <2>3 DEF WorkerFrame, WorkerSteps
  <2>5. TaskOK(f, R, c + 1)
    BY <2>1, <2>3, <2>4 DEF TaskOK
  <2>6. clock' = [clock EXCEPT ![b] = c + 1]
        /\ UNCHANGED <<scheduler, rows, run, told, broker, gaveUp, lost, duplicates>>
    BY <1>5, <1>0 DEF WorkerRead, otherThanTasks, apiVars
  <2> QED BY <1>0, <1>1, <2>1, <2>4, <2>5, <2>6, WorkerStep
<1>6. ASSUME WorkerSkips(w) PROVE IInv'
  <2> DEFINE f == [worker[w] EXCEPT !.pc = "ack"]
  <2>1. f \in WorkerFrame /\ f.pc = "ack"
    BY <1>1 DEF WorkerFrame, WorkerSteps
  <2>2. worker' = [worker EXCEPT ![w] = f] /\ clock' = clock
        /\ UNCHANGED <<scheduler, rows, run, told, broker, gaveUp, lost, duplicates>>
    BY <1>6, <1>0 DEF WorkerSkips, otherThanTasks, apiVars
  <2> QED BY <1>0, <1>1, <1>3, <2>1, <2>2, WorkerStep
<1>7. ASSUME Ack(w) \/ TaskRaises(w) \/ WorkerLost(w) PROVE IInv'
  <2>1. worker' = [worker EXCEPT ![w] = NoTask] /\ clock' = clock
        /\ UNCHANGED <<scheduler, rows, run, told, duplicates>>
    BY <1>7 DEF Ack, TaskRaises, WorkerLost, otherThanTasks, apiVars
  <2>2. broker' \in [Message -> Nat]
    BY <1>7, <1>0 DEF Ack, TaskRaises, WorkerLost
  <2>3. gaveUp' \subseteq Answers
    BY <1>7, <1>0, <1>1 DEF Ack, TaskRaises, WorkerLost
  <2>4. lost' \in 0..MaxLost
    BY <1>7, <1>0, BoundsAssumption DEF Ack, TaskRaises, WorkerLost
  <2> QED BY <1>0, <1>1, <1>3, <2>1, <2>2, <2>3, <2>4, DefaultTypes, WorkerStep
<1>8. ASSUME DeliverAgain(w) PROVE IInv'
  <2>1. UNCHANGED <<scheduler, rows, run, told, clock, worker, gaveUp, lost>>
    BY <1>8 DEF DeliverAgain, otherThanTasks, apiVars
  <2>2. broker' \in [Message -> Nat]
    BY <1>8, <1>0, <1>1 DEF DeliverAgain
  <2>d. duplicates' \in 0..MaxDuplicates
    BY <1>8, <1>0, BoundsAssumption DEF DeliverAgain
  <2>3. TypeOK'
    BY <2>1, <2>2, <2>d DEF IInv, TypeOK
  <2> QED BY <2>1, <2>3 DEF IInv, AnswersInv, TasksInv
<1> QED BY <1>4, <1>5, <1>6, <1>7, <1>8, AppendStep DEF TaskStep

LEMMA Inductive == IInv /\ [Next]_vars => IInv'
<1> SUFFICES ASSUME IInv, [Next]_vars PROVE IInv'
  OBVIOUS
<1>1. CASE Next
  BY <1>1, RunInductive, WorkerInductive DEF Next
<1>2. CASE UNCHANGED vars
  <2>1. TypeOK'
    BY <1>2 DEF IInv, TypeOK, vars, apiVars, taskVars
  <2> QED BY <1>2, <2>1 DEF IInv, AnswersInv, TasksInv, vars, apiVars, taskVars
<1> QED BY <1>1, <1>2

LEMMA Invariance == Spec => []IInv
BY InitInductive, Inductive, PTL DEF Spec

-----------------------------------------------------------------------------
(***************************************************************************)
(* The theorems.                                                           *)
(***************************************************************************)
\* The variables keep their types, for any number of requests, workers, retries,
\* lost workers and second deliveries.
THEOREM TypeCorrect == Spec => []TypeOK
<1>1. IInv => TypeOK
  BY DEF IInv
<1> QED BY <1>1, Invariance, PTL

\* No stored text carries the verification twice, however often verify runs.
THEOREM TextIsVerifiedOnce == Spec => []VerifiedOnce
<1>1. IInv => VerifiedOnce
  BY DEF IInv, AnswersInv, Good, VerifiedOnce
<1> QED BY <1>1, Invariance, PTL

\* The Phase A row ends with the phase_b_status the client was told.
THEOREM StatusIsStored == Spec => []RowAgreesWithResponse
<1>1. IInv => RowAgreesWithResponse
  <2> SUFFICES ASSUME IInv, NEW a \in Answers, told[a] # "nothing"
               PROVE  \E r \in rows[a] : NewestOfA(rows[a], r) /\ r.stat = told[a]
    BY DEF RowAgreesWithResponse
  <2>1. /\ Good(rows[a], clock[a]) /\ CallOK(run[a], rows[a], clock[a], told[a])
        /\ rows[a] \in SUBSET Row
    BY DEF IInv, AnswersInv, TypeOK
  <2>2. run[a].pc = "done" /\ told[a] = run[a].stat /\ rows[a] # {}
    BY <2>1 DEF CallOK
  <2>3. PICK r \in rows[a] : r.phase = "A"
    BY <2>1, <2>2 DEF Good
  <2>4. r.stat = told[a]
    BY <2>1, <2>2, <2>3 DEF CallOK
  <2>5. NewestOfA(rows[a], r)
    BY <2>1, <2>3 DEF Good, NewestOfA, Row
  <2> QED BY <2>4, <2>5
<1> QED BY <1>1, Invariance, PTL

(***************************************************************************)
(* Refinement: a step that stores a row publishes or verifies, the response*)
(* responds, and every other step changes nothing a client sees.           *)
(***************************************************************************)
ShownNow == [a \in Answers |-> Shown(a)]

LEMMA ShownOf ==
    ASSUME NEW R \in SUBSET Row, NEW c \in Nat, Good(R, c)
    PROVE  /\ View(R) = "verified" <=> Verifieds(R) # {}
           /\ View(R) = "nothing" <=> R = {}
           /\ View(R) \in {"nothing", "provisional", "verified"}
<1>1. R = {} => Verifieds(R) = {}
  BY DEF Verifieds
<1> QED BY <1>1, ViewOfGood

\* A step that leaves every row and every response alone is a stutter.
LEMMA SameView ==
    ASSUME rows' = rows, told' = told
    PROVE  UNCHANGED Lifecycle!vars
BY DEF Shown, Lifecycle!vars

\* A step that adds a row to one answer publishes, verifies or stutters.
LEMMA AddedRow ==
    ASSUME IInv, IInv', NEW a \in Answers, NEW r,
           rows' = [rows EXCEPT ![a] = rows[a] \cup {r}], told' = told,
           rows[a] = {} => r.phase = "A",
           rows[a] # {} => r.phase = "B"
    PROVE  [Lifecycle!Next]_(Lifecycle!vars)
<1> DEFINE R == rows[a]
           S == rows[a] \cup {r}
<1>0. rows \in [Answers -> SUBSET Row] /\ clock \in [Answers -> Nat]
      /\ rows' \in [Answers -> SUBSET Row] /\ clock' \in [Answers -> Nat]
  BY DEF IInv, TypeOK
<1>1. rows'[a] = S /\ \A b \in Answers : b # a => rows'[b] = rows[b]
  BY <1>0
<1>2. R \in SUBSET Row /\ S \in SUBSET Row /\ clock[a] \in Nat /\ clock'[a] \in Nat
  BY <1>0, <1>1
<1>3. Good(R, clock[a]) /\ Good(S, clock'[a])
  BY <1>1 DEF IInv, AnswersInv
<1>4. /\ View(R) = "verified" <=> Verifieds(R) # {}
      /\ View(R) = "nothing" <=> R = {}
      /\ View(R) \in {"nothing", "provisional", "verified"}
  BY <1>2, <1>3, ShownOf
<1>5. /\ View(S) = "verified" <=> Verifieds(S) # {}
      /\ View(S) = "nothing" <=> S = {}
      /\ View(S) \in {"nothing", "provisional", "verified"}
  BY <1>2, <1>3, ShownOf
<1>6. Shown(a) = View(R) /\ Shown(a)' = View(S)
      /\ \A b \in Answers : b # a => Shown(b)' = Shown(b)
  BY <1>1 DEF Shown
<1>7. ShownNow' = [ShownNow EXCEPT ![a] = View(S)]
  BY <1>6 DEF ShownNow
<1>8. CASE R = {}
  <2>1. View(R) = "nothing" /\ Verifieds(S) = {} /\ S # {}
    BY <1>4, <1>8 DEF Verifieds
  <2>2. View(S) = "provisional"
    BY <2>1, <1>5
  <2>3. Lifecycle!Publish(a)
    BY <2>1, <2>2, <1>6, <1>7 DEF Lifecycle!Publish, ShownNow
  <2> QED BY <2>3 DEF Lifecycle!Next
<1>9. CASE R # {}
  <2>1. View(S) = "verified" /\ View(R) \in {"provisional", "verified"}
    BY <1>4, <1>5, <1>9 DEF Verifieds
  <2>2. CASE View(R) = "provisional"
    <3>1. Lifecycle!Verify(a)
      BY <2>1, <2>2, <1>6, <1>7 DEF Lifecycle!Verify, ShownNow
    <3> QED BY <3>1 DEF Lifecycle!Next
  <2>3. CASE View(R) = "verified"
    <3>1. ShownNow' = ShownNow
      BY <2>1, <2>3, <1>6, <1>7 DEF ShownNow
    <3> QED BY <3>1 DEF Lifecycle!vars, ShownNow
  <2> QED BY <2>1, <2>2, <2>3
<1> QED BY <1>8, <1>9

\* update_phase_a_phase_b_status changes nothing that polling shows the phase of.
LEMMA UpdateIsInvisible ==
    ASSUME IInv, IInv', NEW a \in Answers, UpdateStatus(a)
    PROVE  UNCHANGED Lifecycle!vars
<1>0. /\ rows \in [Answers -> SUBSET Row] /\ clock \in [Answers -> Nat]
      /\ rows' \in [Answers -> SUBSET Row] /\ run \in [Answers -> Run]
  BY DEF IInv, TypeOK
<1>1. PICK q \in rows[a] : RowToUpdate(rows[a], q)
          /\ rows' = [rows EXCEPT ![a] =
                 (rows[a] \ {q}) \cup {[q EXCEPT !.stat = run[a].stat]}]
  BY DEF UpdateStatus
<1> DEFINE S == rows'[a]
<1>2. q \in Row /\ q.phase = "A" /\ clock' = clock /\ told' = told
  BY <1>0, <1>1 DEF RowToUpdate, NewestOfA, UpdateStatus
<1>3. [q EXCEPT !.stat = run[a].stat].phase = "A"
  BY <1>2 DEF Row
<1>4. S = (rows[a] \ {q}) \cup {[q EXCEPT !.stat = run[a].stat]}
      /\ \A b \in Answers : b # a => rows'[b] = rows[b]
  BY <1>0, <1>1
<1>5. Verifieds(S) = Verifieds(rows[a]) /\ S # {} /\ rows[a] # {}
  BY <1>1, <1>2, <1>3, <1>4 DEF Verifieds
<1>6. Good(rows[a], clock[a]) /\ Good(S, clock[a]) /\ clock[a] \in Nat
      /\ rows[a] \in SUBSET Row /\ S \in SUBSET Row
  BY <1>0, <1>2 DEF IInv, AnswersInv
<1>7. View(S) = View(rows[a])
  <2>1. /\ View(S) = "verified" <=> Verifieds(S) # {}
        /\ View(S) = "nothing" <=> S = {}
        /\ View(S) \in {"nothing", "provisional", "verified"}
    BY <1>6, ShownOf
  <2>2. /\ View(rows[a]) = "verified" <=> Verifieds(rows[a]) # {}
        /\ View(rows[a]) = "nothing" <=> rows[a] = {}
        /\ View(rows[a]) \in {"nothing", "provisional", "verified"}
    BY <1>6, ShownOf
  <2> QED BY <2>1, <2>2, <1>5
<1>8. \A b \in Answers : Shown(b)' = Shown(b)
  BY <1>4, <1>7 DEF Shown
<1> QED BY <1>2, <1>8 DEF Lifecycle!vars

LEMMA RespondRefines ==
    ASSUME IInv, NEW a \in Answers, Respond(a)
    PROVE  Lifecycle!Next
<1>1. /\ Good(rows[a], clock[a]) /\ CallOK(run[a], rows[a], clock[a], told[a])
      /\ rows[a] \in SUBSET Row /\ clock[a] \in Nat /\ run[a] \in Run
      /\ told \in [Answers -> {"nothing", "off", "queued", "complete", "failed"}]
  BY DEF IInv, AnswersInv, TypeOK
<1>2. run[a].pc = "review" /\ rows' = rows /\ told' = [told EXCEPT ![a] = run[a].stat]
  BY DEF Respond, AtStep
<1>3. run[a].stat \in Lifecycle!Statuses
  BY <1>1 DEF CallOK, Run, Lifecycle!Statuses
<1>4. /\ View(rows[a]) = "verified" <=> Verifieds(rows[a]) # {}
      /\ View(rows[a]) = "nothing" <=> rows[a] = {}
  BY <1>1, ShownOf
<1>5. /\ told[a] = "nothing" /\ rows[a] # {}
      /\ run[a].stat = "complete" => Verifieds(rows[a]) # {}
  BY <1>1, <1>2 DEF CallOK
<1>6. Shown(a) = View(rows[a]) /\ ShownNow' = ShownNow /\ ShownNow[a] = Shown(a)
  BY <1>2 DEF Shown, ShownNow
<1>7. Lifecycle!Respond(a, run[a].stat)
  BY <1>2, <1>4, <1>5, <1>6 DEF Lifecycle!Respond, ShownNow
<1> QED BY <1>3, <1>7 DEF Lifecycle!Next

LEMMA StepRefines ==
    ASSUME IInv, IInv', [Next]_vars
    PROVE  [Lifecycle!Next]_(Lifecycle!vars)
<1>1. ASSUME NEW a \in Answers, StoreAnswer(a)
      PROVE  [Lifecycle!Next]_(Lifecycle!vars)
  <2>1. CallOK(run[a], rows[a], clock[a], told[a])
    BY DEF IInv, AnswersInv
  <2>2. rows[a] = {} /\ run[a].row.phase = "A"
    BY <1>1, <2>1 DEF StoreAnswer, AtStep, CallOK
  <2>3. rows' = [rows EXCEPT ![a] = rows[a] \cup {run[a].row}] /\ told' = told
    BY <1>1 DEF StoreAnswer
  <2> QED BY <2>2, <2>3, AddedRow
<1>2. ASSUME NEW a \in Answers, InlineAppend(a)
      PROVE  [Lifecycle!Next]_(Lifecycle!vars)
  <2>1. CallOK(run[a], rows[a], clock[a], told[a])
    BY DEF IInv, AnswersInv
  <2>2. rows[a] # {} /\ run[a].row.phase = "B"
    BY <1>2, <2>1 DEF InlineAppend, AtStep, CallOK, Fresh
  <2>3. rows' = [rows EXCEPT ![a] = rows[a] \cup {run[a].row}] /\ told' = told
    BY <1>2 DEF InlineAppend
  <2> QED BY <2>2, <2>3, AddedRow
<1>3. ASSUME NEW w \in Workers, WorkerAppend(w)
      PROVE  [Lifecycle!Next]_(Lifecycle!vars)
  <2> DEFINE a == worker[w].msg.answer
  <2>1. a \in Answers
    BY DEF IInv, TypeOK, WorkerFrame, Message
  <2>2. rows[a] # {} /\ worker[w].row.phase = "B"
    BY <1>3 DEF WorkerAppend, IInv, TasksInv, TaskOK, Fresh
  <2>3. rows' = [rows EXCEPT ![a] = rows[a] \cup {worker[w].row}] /\ told' = told
    BY <1>3 DEF WorkerAppend, otherThanTasks, apiVars
  <2> QED BY <2>1, <2>2, <2>3, AddedRow
<1>4. ASSUME NEW a \in Answers, UpdateStatus(a) \/ Respond(a)
      PROVE  [Lifecycle!Next]_(Lifecycle!vars)
  BY <1>4, UpdateIsInvisible, RespondRefines
<1>5. ASSUME rows' = rows, told' = told
      PROVE  [Lifecycle!Next]_(Lifecycle!vars)
  BY <1>5, SameView
<1>6. ASSUME NEW a \in Answers,
             \/ \E mode \in Modes, required \in BOOLEAN : Generate(a, mode, required)
             \/ ScheduleNoop(a) \/ ScheduleCelery(a) \/ InlineRead(a) \/ RunFails(a)
      PROVE  rows' = rows /\ told' = told
  BY <1>6 DEF Generate, ScheduleNoop, ScheduleCelery, InlineRead, RunFails
<1>7. ASSUME NEW w \in Workers,
             \/ \E m \in Message : Receive(w, m)
             \/ WorkerRead(w) \/ WorkerSkips(w) \/ Ack(w)
             \/ TaskRaises(w) \/ WorkerLost(w) \/ DeliverAgain(w)
      PROVE  rows' = rows /\ told' = told
  BY <1>7 DEF Receive, WorkerRead, WorkerSkips, Ack, TaskRaises, WorkerLost,
              DeliverAgain, otherThanTasks, apiVars
<1>8. CASE UNCHANGED vars
  BY <1>8, <1>5 DEF vars, apiVars
<1>9. CASE Next
  BY <1>9, <1>1, <1>2, <1>3, <1>4, <1>5, <1>6, <1>7 DEF Next, RunStep, TaskStep
<1> QED BY <1>8, <1>9

\* The service implements AnswerLifecycle: what polling shows only ever goes from
\* nothing to provisional to verified, and a response is never ahead of it.
THEOREM ImplementsLifecycle == Spec => KeepsPromises
<1>1. Init => Lifecycle!Init
  BY DEF Init, Lifecycle!Init, Shown, View
<1>2. Spec => [][Lifecycle!Next]_(Lifecycle!vars)
  BY StepRefines, Invariance, PTL DEF Spec
<1> QED BY <1>1, <1>2, PTL DEF Spec, KeepsPromises, Lifecycle!Spec

-----------------------------------------------------------------------------
(***************************************************************************)
(* Handing over.  A message that waits or is being worked on belongs to an *)
(* answer that has rows, so verify finds it verified or unverified; and a  *)
(* worker that is about to acknowledge has seen or stored the verified row.*)
(***************************************************************************)
Delivered(a) == InBroker(a) \/ OnWorker(a) \/ HasVerified(a) \/ a \in gaveUp

HandInv ==
    /\ \A m \in Message : broker[m] > 0 => rows[m.answer] # {}
    /\ \A w \in Workers : worker[w].pc # "idle" => rows[worker[w].msg.answer] # {}
    /\ \A w \in Workers : worker[w].pc = "ack" => Verifieds(rows[worker[w].msg.answer]) # {}
    /\ \A a \in Answers : scheduler = "celery" /\ run[a].stat = "queued" => Delivered(a)

LEMMA HasVerifiedIff ==
    ASSUME NEW a \in Answers
    PROVE  /\ HasVerified(a) <=> Verifieds(rows[a]) # {}
           /\ HasVerified(a)' <=> Verifieds(rows'[a]) # {}
BY DEF HasVerified, Verifieds

\* Rows stay: an answer that has rows keeps some, and stays verified.
LEMMA RowsStay ==
    ASSUME IInv, [Next]_vars, NEW a \in Answers
    PROVE  /\ rows[a] # {} => rows'[a] # {}
           /\ Verifieds(rows[a]) # {} => Verifieds(rows'[a]) # {}
<1>0. rows \in [Answers -> SUBSET Row] /\ worker \in [Workers -> WorkerFrame]
  BY DEF IInv, TypeOK
<1> DEFINE Stays == /\ rows[a] # {} => rows'[a] # {}
                    /\ Verifieds(rows[a]) # {} => Verifieds(rows'[a]) # {}
<1>1. CASE rows' = rows
  BY <1>1 DEF Verifieds
<1>2. ASSUME NEW b \in Answers, StoreAnswer(b) \/ InlineAppend(b) PROVE Stays
  <2>1. rows[a] \subseteq rows'[a]
    BY <1>0, <1>2 DEF StoreAnswer, InlineAppend
  <2> QED BY <2>1 DEF Verifieds
<1>3. ASSUME NEW w \in Workers, WorkerAppend(w) PROVE Stays
  <2>1. rows[a] \subseteq rows'[a]
    BY <1>0, <1>3 DEF WorkerAppend
  <2> QED BY <2>1 DEF Verifieds
<1>4. ASSUME NEW b \in Answers, UpdateStatus(b) PROVE Stays
  <2>1. CASE a # b
    BY <1>0, <1>4, <2>1 DEF UpdateStatus, Verifieds
  <2>2. CASE a = b
    <3>1. PICK q \in rows[a] :
              /\ RowToUpdate(rows[a], q)
              /\ rows'[a] = (rows[a] \ {q}) \cup {[q EXCEPT !.stat = run[a].stat]}
      BY <1>0, <1>4, <2>2 DEF UpdateStatus
    <3>2. \A r \in rows[a] : r.phase = "B" => r \in rows'[a]
      BY <3>1 DEF RowToUpdate, NewestOfA
    <3> QED BY <3>1, <3>2 DEF Verifieds
  <2> QED BY <2>1, <2>2
<1>5. ASSUME NEW b \in Answers,
             \/ \E mode \in Modes, required \in BOOLEAN : Generate(b, mode, required)
             \/ RunStep(b) \/ RunFails(b)
      PROVE  Stays
  <2>1. CASE StoreAnswer(b) \/ InlineAppend(b)
    BY <1>2, <2>1
  <2>2. CASE UpdateStatus(b)
    BY <1>4, <2>2
  <2>3. CASE \E mode \in Modes, required \in BOOLEAN : Generate(b, mode, required)
    BY <1>1, <2>3 DEF Generate
  <2>4. CASE ScheduleNoop(b) \/ ScheduleCelery(b)
    BY <1>1, <2>4 DEF ScheduleNoop, ScheduleCelery
  <2>6. CASE InlineRead(b)
    BY <1>1, <2>6 DEF InlineRead
  <2>5. CASE Respond(b) \/ RunFails(b)
    BY <1>1, <2>5 DEF Respond, RunFails
  <2> QED BY <1>5, <2>1, <2>2, <2>3, <2>4, <2>5, <2>6 DEF RunStep
<1>6. ASSUME NEW w \in Workers, TaskStep(w) \/ TaskRaises(w) \/ WorkerLost(w) \/ DeliverAgain(w)
      PROVE  Stays
  <2>1. CASE WorkerAppend(w)
    BY <1>3, <2>1
  <2>2. CASE \E m \in Message : Receive(w, m)
    BY <1>1, <2>2 DEF Receive
  <2>3. CASE WorkerRead(w)
    BY <1>1, <2>3 DEF WorkerRead
  <2>5. CASE WorkerSkips(w) \/ Ack(w)
    BY <1>1, <2>5 DEF WorkerSkips, Ack
  <2>4. CASE TaskRaises(w) \/ WorkerLost(w) \/ DeliverAgain(w)
    BY <1>1, <2>4 DEF TaskRaises, WorkerLost, DeliverAgain
  <2> QED BY <1>6, <2>1, <2>2, <2>3, <2>4, <2>5 DEF TaskStep
<1>7. ASSUME UNCHANGED vars PROVE Stays
  BY <1>1, <1>7 DEF vars
<1> HIDE DEF Stays
<1>8. Stays
  BY <1>5, <1>6, <1>7 DEF Next
<1> QED BY <1>8 DEF Stays

\* A worker finds nothing to verify only in an answer that is verified.
LEMMA SkippedIsVerified ==
    ASSUME IInv, NEW w \in Workers, Unverified(w) = {}, rows[worker[w].msg.answer] # {}
    PROVE  Verifieds(rows[worker[w].msg.answer]) # {}
<1> DEFINE b == worker[w].msg.answer
<1>1. b \in Answers /\ rows[b] \in SUBSET Row /\ Good(rows[b], clock[b])
  BY DEF IInv, TypeOK, AnswersInv, WorkerFrame, Message
<1>2. PICK r \in rows[b] : Newest(rows[b], r)
  BY <1>1 DEF Good
<1>3. r.phase # "A"
  BY <1>2 DEF Unverified, NeedsVerification
<1> QED BY <1>1, <1>2, <1>3 DEF Verifieds, Row

LEMMA HandStep == IInv /\ HandInv /\ [Next]_vars => HandInv'
<1> SUFFICES ASSUME IInv, HandInv, [Next]_vars PROVE HandInv'
  OBVIOUS
<1>0. /\ rows \in [Answers -> SUBSET Row] /\ run \in [Answers -> Run]
      /\ broker \in [Message -> Nat] /\ worker \in [Workers -> WorkerFrame]
      /\ \A m \in Message : m.answer \in Answers
      /\ \A w \in Workers : worker[w].msg \in Message /\ worker[w].msg.answer \in Answers
  BY DEF IInv, TypeOK, WorkerFrame, Message
<1>1. \A a \in Answers : /\ rows[a] # {} => rows'[a] # {}
                         /\ Verifieds(rows[a]) # {} => Verifieds(rows'[a]) # {}
                         /\ HasVerified(a) => HasVerified(a)'
  BY RowsStay, HasVerifiedIff
<1>2. ASSUME UNCHANGED <<scheduler, broker, worker, gaveUp>>,
             \A a \in Answers : scheduler = "celery" /\ run'[a].stat = "queued" => run[a].stat = "queued"
      PROVE  HandInv'
  <2>1. \A a \in Answers : Delivered(a) => Delivered(a)'
    BY <1>1, <1>2 DEF Delivered, InBroker, OnWorker
  <2>2. \A a \in Answers : scheduler' = "celery" /\ run'[a].stat = "queued" => Delivered(a)'
    BY <1>2, <2>1 DEF HandInv
  <2>3. \A m \in Message : broker'[m] > 0 => rows'[m.answer] # {}
    BY <1>0, <1>1, <1>2 DEF HandInv
  <2>4. \A w \in Workers : /\ worker'[w].pc # "idle" => rows'[worker'[w].msg.answer] # {}
                           /\ worker'[w].pc = "ack" => Verifieds(rows'[worker'[w].msg.answer]) # {}
    BY <1>0, <1>1, <1>2 DEF HandInv
  <2> QED BY <1>2, <2>2, <2>3, <2>4 DEF HandInv
<1>3. ASSUME NEW a \in Answers,
             \/ \E mode \in Modes, required \in BOOLEAN : Generate(a, mode, required)
             \/ StoreAnswer(a) \/ ScheduleNoop(a) \/ InlineRead(a) \/ InlineAppend(a)
             \/ UpdateStatus(a) \/ Respond(a) \/ RunFails(a)
      PROVE  HandInv'
  <2>1. /\ UNCHANGED <<scheduler, broker, worker, gaveUp>>
        /\ \A b \in Answers : b # a => run'[b] = run[b]
    <3>1. CASE \E mode \in Modes, required \in BOOLEAN : Generate(a, mode, required)
      BY <1>0, <3>1 DEF Generate, taskVars
    <3>2. CASE StoreAnswer(a) \/ ScheduleNoop(a)
      BY <1>0, <3>2 DEF StoreAnswer, ScheduleNoop, taskVars
    <3>3. CASE InlineRead(a)
      BY <1>0, <3>3 DEF InlineRead, taskVars
    <3>6. CASE InlineAppend(a)
      BY <1>0, <3>6 DEF InlineAppend, taskVars
    <3>4. CASE UpdateStatus(a)
      BY <1>0, <3>4 DEF UpdateStatus, taskVars
    <3>5. CASE Respond(a) \/ RunFails(a)
      BY <1>0, <3>5 DEF Respond, RunFails, taskVars
    <3> QED BY <1>3, <3>1, <3>2, <3>3, <3>4, <3>5, <3>6
  <2>3. scheduler = "celery" /\ run'[a].stat = "queued" => run[a].stat = "queued"
    <3>0. run[a] \in Run
      BY <1>0
    <3>1. ASSUME NEW mode \in Modes, NEW required \in BOOLEAN, Generate(a, mode, required)
          PROVE  run'[a].stat = "off"
      BY <1>0, <3>1 DEF Generate
    <3>2. CASE StoreAnswer(a)
      BY <1>0, <3>0, <3>2 DEF StoreAnswer, Run
    <3>3. CASE ScheduleNoop(a)
      BY <3>3 DEF ScheduleNoop
    <3>4. CASE InlineRead(a)
      BY <1>0, <3>0, <3>4 DEF InlineRead, Run
    <3>5. CASE InlineAppend(a)
      BY <1>0, <3>0, <3>5 DEF InlineAppend, Run
    <3>6. CASE UpdateStatus(a)
      <4>1. run' = [run EXCEPT ![a] = [run[a] EXCEPT !.pc = "review"]]
        BY <1>0, <3>6 DEF UpdateStatus
      <4> QED BY <1>0, <3>0, <4>1 DEF Run
    <3>7. CASE Respond(a)
      BY <1>0, <3>0, <3>7 DEF Respond, Run
    <3>8. CASE RunFails(a)
      BY <1>0, <3>0, <3>8 DEF RunFails, Run
    <3> QED BY <1>3, <3>1, <3>2, <3>3, <3>4, <3>5, <3>6, <3>7, <3>8
  <2> QED BY <1>2, <2>1, <2>3
<1>4. ASSUME NEW a \in Answers, ScheduleCelery(a) PROVE HandInv'
  <2>1. First(ApiQueue, a) \in Message /\ First(ApiQueue, a).answer = a
    BY DefaultTypes DEF First
  <2> DEFINE m0 == First(ApiQueue, a)
  <2>2. rows[a] # {}
    BY <1>4 DEF IInv, AnswersInv, CallOK, ScheduleCelery, AtStep
  <2>3. /\ broker' = [broker EXCEPT ![m0] = broker[m0] + 1]
        /\ UNCHANGED <<scheduler, rows, worker, gaveUp>>
        /\ \A b \in Answers : b # a => run'[b] = run[b]
    BY <1>0, <1>4 DEF ScheduleCelery, taskVars
  <2>t. m0 \in Message
    BY <2>1
  <2> HIDE DEF m0
  <2>4. /\ broker'[m0] > 0
        /\ \A m \in Message : broker[m] > 0 => broker'[m] > 0
        /\ \A m \in Message : m # m0 => broker'[m] = broker[m]
    BY <1>0, <2>t, <2>3
  <2>5. m0 \in Message /\ m0.answer = a
    BY <2>1 DEF m0
  <2>6. Delivered(a)'
    BY <2>4, <2>5 DEF Delivered, InBroker
  <2>7. \A b \in Answers : Delivered(b) => Delivered(b)'
    BY <2>3, <2>4 DEF Delivered, InBroker, OnWorker, HasVerified
  <2>8. \A b \in Answers : scheduler' = "celery" /\ run'[b].stat = "queued" => Delivered(b)'
    BY <2>3, <2>6, <2>7 DEF HandInv
  <2>9. \A m \in Message : broker'[m] > 0 => rows'[m.answer] # {}
    BY <2>2, <2>3, <2>4, <2>5 DEF HandInv
  <2> QED BY <2>3, <2>8, <2>9 DEF HandInv
<1>5. ASSUME NEW w \in Workers,
             TaskStep(w) \/ TaskRaises(w) \/ WorkerLost(w) \/ DeliverAgain(w)
      PROVE  HandInv'
  <2>0. PICK b \in Answers, mine \in Message : mine = worker[w].msg /\ b = mine.answer
    BY <1>0
  <2>1. /\ UNCHANGED <<scheduler, run>>
        /\ \A u \in Workers : u # w => worker'[u] = worker[u]
    <3>1. CASE \E m \in Message : Receive(w, m)
      BY <1>0, <3>1 DEF Receive, otherThanTasks, apiVars
    <3>2. CASE WorkerRead(w)
      BY <1>0, <3>2 DEF WorkerRead, otherThanTasks, apiVars
    <3>5. CASE WorkerSkips(w)
      BY <1>0, <3>5 DEF WorkerSkips, otherThanTasks, apiVars
    <3>3. CASE WorkerAppend(w) \/ Ack(w) \/ DeliverAgain(w)
      BY <1>0, <3>3 DEF WorkerAppend, Ack, DeliverAgain, otherThanTasks, apiVars
    <3>4. CASE TaskRaises(w) \/ WorkerLost(w)
      BY <1>0, <3>4 DEF TaskRaises, WorkerLost, otherThanTasks, apiVars
    <3> QED BY <1>5, <3>1, <3>2, <3>3, <3>4, <3>5 DEF TaskStep
  \* What w or the broker holds after the step has rows, and w moves a message on.
  <2> DEFINE Backed == \A m \in Message : broker'[m] > 0 => rows[m.answer] # {}
             Busy == worker'[w].pc # "idle" =>
                         worker'[w].msg \in Message /\ rows[worker'[w].msg.answer] # {}
             Acks == worker'[w].pc = "ack" => Verifieds(rows'[worker'[w].msg.answer]) # {}
             Moves == \A a \in Answers : Delivered(a) => Delivered(a)'
  <2>2. ASSUME Backed, Busy, Acks, Moves PROVE HandInv'
    <3>1. \A m \in Message : broker'[m] > 0 => rows'[m.answer] # {}
      BY <1>0, <1>1, <2>2
    <3>2. \A u \in Workers : worker'[u].pc # "idle" => rows'[worker'[u].msg.answer] # {}
      <4>1. worker'[w].pc # "idle" => rows'[worker'[w].msg.answer] # {}
        BY <1>0, <1>1, <2>2
      <4>2. \A u \in Workers : u # w /\ worker'[u].pc # "idle" => rows'[worker'[u].msg.answer] # {}
        BY <1>0, <1>1, <2>1 DEF HandInv
      <4> QED BY <4>1, <4>2
    <3>3. \A u \in Workers : worker'[u].pc = "ack" => Verifieds(rows'[worker'[u].msg.answer]) # {}
      <4>1. worker'[w].pc = "ack" => Verifieds(rows'[worker'[w].msg.answer]) # {}
        BY <2>2
      <4>2. \A u \in Workers : u # w /\ worker'[u].pc = "ack" =>
                Verifieds(rows'[worker'[u].msg.answer]) # {}
        BY <1>0, <1>1, <2>1 DEF HandInv
      <4> QED BY <4>1, <4>2
    <3>4. \A a \in Answers : scheduler' = "celery" /\ run'[a].stat = "queued" => Delivered(a)'
      BY <2>1, <2>2 DEF HandInv
    <3> QED BY <3>1, <3>2, <3>3, <3>4 DEF HandInv
  <2>3. ASSUME NEW m \in Message, Receive(w, m) PROVE HandInv'
    <3>1. /\ worker'[w].pc = "read" /\ worker'[w].msg = m /\ broker[m] > 0
          /\ worker[w].pc = "idle" /\ UNCHANGED <<rows, gaveUp>>
          /\ broker' = [broker EXCEPT ![m] = broker[m] - 1]
      BY <1>0, <2>3 DEF Receive, WorkerFrame
    <3>2. \A n \in Message : broker'[n] > 0 => broker[n] > 0
      BY <1>0, <3>1
    <3>3. \A n \in Message : n # m => broker'[n] = broker[n]
      BY <1>0, <3>1
    <3>4. \A a \in Answers : OnWorker(a) => OnWorker(a)'
      BY <2>1, <3>1 DEF OnWorker
    <3>5. OnWorker(m.answer)'
      BY <3>1 DEF OnWorker
    <3>6. Moves
      BY <3>1, <3>3, <3>4, <3>5 DEF Delivered, InBroker, HasVerified
    <3>7. Backed /\ Busy /\ Acks
      BY <1>0, <3>1, <3>2 DEF HandInv
    <3> QED BY <2>2, <3>6, <3>7
  <2>4. ASSUME WorkerRead(w) \/ WorkerSkips(w) \/ WorkerAppend(w) \/ DeliverAgain(w)
        PROVE  HandInv'
    <3>0. worker[w] \in WorkerFrame
      BY <1>0
    <3>1. /\ worker[w].pc # "idle" /\ worker'[w].pc # "idle" /\ worker'[w].msg = mine
          /\ UNCHANGED gaveUp
      <4>1. CASE WorkerRead(w)
        BY <1>0, <2>0, <3>0, <4>1 DEF WorkerRead, WorkerFrame
      <4>2. CASE WorkerSkips(w)
        BY <1>0, <2>0, <3>0, <4>2 DEF WorkerSkips, WorkerFrame
      <4>4. CASE WorkerAppend(w)
        BY <1>0, <2>0, <3>0, <4>4 DEF WorkerAppend, WorkerFrame
      <4>3. CASE DeliverAgain(w)
        BY <2>0, <4>3 DEF DeliverAgain
      <4> QED BY <2>4, <4>1, <4>2, <4>3, <4>4
    <3>2. \A n \in Message : /\ broker[n] > 0 => broker'[n] > 0
                             /\ broker'[n] > 0 => broker[n] > 0 \/ n = mine
      <4>1. CASE broker' = broker
        BY <4>1
      <4>2. CASE DeliverAgain(w)
        BY <1>0, <2>0, <4>2 DEF DeliverAgain
      <4>3. CASE WorkerRead(w)
        BY <4>1, <4>3 DEF WorkerRead
      <4> QED BY <2>4, <4>1, <4>2, <4>3 DEF WorkerSkips, WorkerAppend
    <3>3. Backed /\ Busy
      BY <1>0, <2>0, <3>1, <3>2 DEF HandInv
    <3>4. Acks
      <4>1. CASE WorkerSkips(w)
        <5>1. Verifieds(rows[b]) # {}
          BY <2>0, <3>1, <4>1, SkippedIsVerified DEF HandInv, WorkerSkips
        <5> QED BY <1>1, <2>0, <3>1, <5>1
      <4>2. CASE WorkerAppend(w)
        <5>1. worker[w].row.phase = "B" /\ worker[w].row \in rows'[b]
          BY <1>0, <2>0, <4>2 DEF WorkerAppend, IInv, TasksInv, TaskOK, Fresh
        <5> QED BY <2>0, <3>1, <5>1 DEF Verifieds
      <4>3. CASE WorkerRead(w)
        BY <1>0, <3>0, <4>3 DEF WorkerRead, WorkerFrame
      <4>4. CASE DeliverAgain(w)
        BY <4>4 DEF DeliverAgain, HandInv
      <4> QED BY <2>4, <4>1, <4>2, <4>3, <4>4
    <3>5. \A a \in Answers : OnWorker(a) => OnWorker(a)'
      BY <2>0, <2>1, <3>1 DEF OnWorker
    <3>6. Moves
      BY <1>1, <3>1, <3>2, <3>5 DEF Delivered, InBroker
    <3> QED BY <2>2, <3>3, <3>4, <3>6
  <2>5. ASSUME Ack(w) \/ TaskRaises(w) \/ WorkerLost(w) PROVE HandInv'
    <3>1. worker'[w].pc = "idle" /\ worker[w].pc # "idle" /\ UNCHANGED rows
      BY <1>0, <2>5, DefaultTypes DEF Ack, TaskRaises, WorkerLost
    <3>2. /\ Again(mine).answer = b
          /\ mine.retries < MaxRetries => Again(mine) \in Message
      BY <2>0, BoundsAssumption DEF Again, Message
    <3>3. \/ Ack(w) /\ broker' = broker /\ gaveUp' = gaveUp
          \/ WorkerLost(w) /\ broker' = [broker EXCEPT ![mine] = broker[mine] + 1] /\ gaveUp' = gaveUp
          \/ /\ mine.retries < MaxRetries /\ gaveUp' = gaveUp
             /\ broker' = [broker EXCEPT ![Again(mine)] = broker[Again(mine)] + 1]
          \/ broker' = broker /\ gaveUp' = gaveUp \cup {b}
      BY <2>0, <2>5 DEF Ack, TaskRaises, WorkerLost
    <3>4. /\ gaveUp \subseteq gaveUp'
          /\ \A n \in Message : /\ broker[n] > 0 => broker'[n] > 0
                                /\ broker'[n] > 0 => broker[n] > 0 \/ n.answer = b
      <4>1. CASE broker' = broker
        BY <3>3, <4>1
      <4>2. CASE broker' = [broker EXCEPT ![mine] = broker[mine] + 1]
        BY <1>0, <2>0, <3>3, <4>2
      <4>3. CASE broker' = [broker EXCEPT ![Again(mine)] = broker[Again(mine)] + 1]
                 /\ mine.retries < MaxRetries
        BY <1>0, <3>2, <3>3, <4>3
      <4> QED BY <3>3, <4>1, <4>2, <4>3
    <3>5. Delivered(b)'
      <4>1. CASE Ack(w)
        <5>1. Verifieds(rows'[b]) # {}
          BY <2>0, <3>1, <4>1 DEF Ack, HandInv
        <5> QED BY <5>1, HasVerifiedIff DEF Delivered
      <4>2. CASE broker' = [broker EXCEPT ![mine] = broker[mine] + 1]
        <5>1. broker'[mine] > 0
          BY <1>0, <2>0, <4>2
        <5> QED BY <2>0, <5>1 DEF Delivered, InBroker
      <4>3. CASE /\ mine.retries < MaxRetries
                 /\ broker' = [broker EXCEPT ![Again(mine)] = broker[Again(mine)] + 1]
        <5>1. broker'[Again(mine)] > 0
          BY <1>0, <3>2, <4>3
        <5> QED BY <3>2, <4>3, <5>1 DEF Delivered, InBroker
      <4>4. CASE gaveUp' = gaveUp \cup {b}
        BY <4>4 DEF Delivered
      <4> QED BY <3>3, <4>1, <4>2, <4>3, <4>4
    <3>6. \A a \in Answers : a # b /\ OnWorker(a) => OnWorker(a)'
      BY <2>0, <2>1 DEF OnWorker
    <3>7. Moves
      <4> SUFFICES ASSUME NEW a \in Answers, Delivered(a), a # b PROVE Delivered(a)'
        BY <3>5
      <4>1. InBroker(a) => InBroker(a)'
        BY <3>4 DEF InBroker
      <4> QED BY <1>1, <3>4, <3>6, <4>1 DEF Delivered
    <3>8. Backed /\ Busy /\ Acks
      BY <1>0, <2>0, <3>1, <3>4 DEF HandInv
    <3> QED BY <2>2, <3>7, <3>8
  <2> QED BY <1>5, <2>3, <2>4, <2>5 DEF TaskStep
<1>6. CASE UNCHANGED vars
  BY <1>2, <1>6 DEF vars, apiVars, taskVars
<1> QED BY <1>3, <1>4, <1>5, <1>6 DEF Next, RunStep

\* A response that says "queued" is backed by a message that no number of lost
\* workers, retries and second deliveries loses before it is verified or given up.
THEOREM QueuedIsHandedOver == Spec => []HandedOver
<1>1. Init => HandInv
  BY DefaultTypes DEF Init, HandInv
<1>2. IInv /\ HandInv => HandedOver
  BY DEF IInv, AnswersInv, CallOK, HandInv, HandedOver, Delivered
<1> QED BY <1>1, <1>2, HandStep, Invariance, PTL DEF Spec

-----------------------------------------------------------------------------
(***************************************************************************)
(* One verification.  Without a second delivery an answer has at most one  *)
(* message, which waits or is held by one worker, and none before it is    *)
(* scheduled; so the worker that found it unverified appends alone.        *)
(***************************************************************************)
Held(w, a) == worker[w].pc # "idle" /\ worker[w].msg.answer = a

Quiet(a) ==
    /\ \A m \in Message : m.answer = a => broker[m] = 0
    /\ \A w \in Workers : ~Held(w, a)

OneMessage(a) ==
    /\ \A m, n \in Message :
           m.answer = a /\ n.answer = a /\ broker[m] > 0 /\ broker[n] > 0
               => m = n /\ broker[m] = 1
    /\ \A w, u \in Workers : Held(w, a) /\ Held(u, a) => w = u
    /\ \A w \in Workers, m \in Message : Held(w, a) /\ m.answer = a => broker[m] = 0

VerifiedAtMostOnce(a) == \A r, s \in Verifieds(rows[a]) : r = s

Single(a) ==
    /\ OneMessage(a)
    /\ VerifiedAtMostOnce(a)
    /\ run[a].pc \in {"idle", "store", "schedule", "inlineAppend"} =>
           Quiet(a) /\ Verifieds(rows[a]) = {}
    /\ \A w \in Workers :
           Held(w, a) /\ worker[w].pc = "append" => Verifieds(rows[a]) = {}

OneInv == duplicates = 0 => \A a \in Answers : Single(a)

\* A step that leaves an answer's messages, rows and call alone.
LEMMA SingleKept ==
    ASSUME NEW a \in Answers, Single(a), rows'[a] = rows[a], run'[a] = run[a],
           \A m \in Message : m.answer = a => broker'[m] = broker[m],
           \A w \in Workers : Held(w, a) \/ Held(w, a)' => worker'[w] = worker[w]
    PROVE  Single(a)'
<1>1. \A w \in Workers : Held(w, a)' <=> Held(w, a)
  BY DEF Held
<1>2. OneMessage(a)'
  BY <1>1 DEF Single, OneMessage
<1>3. Quiet(a) => Quiet(a)'
  BY <1>1 DEF Quiet
<1>4. \A w \in Workers : Held(w, a)' => worker'[w].pc = worker[w].pc
  OBVIOUS
<1> QED BY <1>1, <1>2, <1>3, <1>4 DEF Single, VerifiedAtMostOnce

\* A step of the call of an answer that sends nothing.
LEMMA CallKeepsSingle ==
    ASSUME IInv, NEW a \in Answers, Single(a),
           \/ \E mode \in Modes, required \in BOOLEAN : Generate(a, mode, required)
           \/ StoreAnswer(a) \/ ScheduleNoop(a) \/ InlineRead(a) \/ InlineAppend(a)
           \/ UpdateStatus(a) \/ Respond(a) \/ RunFails(a)
    PROVE  Single(a)'
<1>0. /\ rows \in [Answers -> SUBSET Row] /\ run \in [Answers -> Run]
      /\ run[a] \in Run /\ rows[a] \in SUBSET Row
      /\ CallOK(run[a], rows[a], clock[a], told[a]) /\ Good(rows[a], clock[a])
  BY DEF IInv, TypeOK, AnswersInv
<1> DEFINE Early == {"idle", "store", "schedule", "inlineAppend"}
           V == Verifieds(rows[a])
           W == Verifieds(rows'[a])
<1>1. ASSUME UNCHANGED <<broker, worker>>,
             W = V \/ (run[a].pc \in Early /\ run'[a].pc \notin Early /\ \A r, s \in W : r = s),
             run'[a].pc \in Early => run[a].pc \in Early
      PROVE  Single(a)'
  <2>1. OneMessage(a)' /\ (Quiet(a) => Quiet(a)')
    BY <1>1 DEF Single, OneMessage, Quiet, Held
  <2>2. VerifiedAtMostOnce(a)'
    BY <1>1 DEF Single, VerifiedAtMostOnce
  <2>3. run'[a].pc \in Early => Quiet(a)' /\ W = {}
    BY <1>1, <2>1 DEF Single
  <2>4. \A w \in Workers : Held(w, a)' /\ worker'[w].pc = "append" => W = {}
    BY <1>1 DEF Single, Quiet, Held
  <2> QED BY <2>1, <2>2, <2>3, <2>4 DEF Single
<1>2. CASE \E mode \in Modes, required \in BOOLEAN : Generate(a, mode, required)
  BY <1>0, <1>1, <1>2 DEF Generate, AtStep, taskVars
<1>3. CASE StoreAnswer(a)
  <2>1. run[a].pc = "store" /\ rows'[a] = rows[a] \cup {run[a].row} /\ UNCHANGED <<broker, worker>>
    BY <1>0, <1>3 DEF StoreAnswer, AtStep, taskVars
  <2>2. V = {} /\ W = {}
    BY <1>0, <2>1 DEF CallOK, Verifieds
  <2> QED BY <1>1, <2>1, <2>2
<1>4. CASE ScheduleNoop(a)
  BY <1>0, <1>1, <1>4 DEF ScheduleNoop, AtStep, taskVars, Run
<1>5. CASE InlineRead(a)
  <2>1. run[a].pc = "schedule"
    BY <1>5 DEF InlineRead, AtStep
  <2>2. UNCHANGED <<rows, broker, worker>>
    BY <1>5 DEF InlineRead, taskVars
  <2> QED BY <1>1, <2>1, <2>2
<1>6. CASE InlineAppend(a)
  <2>1. /\ run[a].pc = "inlineAppend" /\ rows'[a] = rows[a] \cup {run[a].row}
        /\ run'[a].pc = "update" /\ UNCHANGED <<broker, worker>>
    BY <1>0, <1>6 DEF InlineAppend, AtStep, taskVars, Run
  <2>2. V = {}
    BY <2>1 DEF Single
  <2>3. \A r, s \in W : r = s
    BY <2>1, <2>2 DEF Verifieds
  <2> QED BY <1>1, <2>1, <2>3
<1>7. CASE UpdateStatus(a)
  <2>1. PICK q \in rows[a] :
            /\ RowToUpdate(rows[a], q)
            /\ rows'[a] = (rows[a] \ {q}) \cup {[q EXCEPT !.stat = run[a].stat]}
    BY <1>0, <1>7 DEF UpdateStatus
  <2>2. q.phase = "A" /\ [q EXCEPT !.stat = run[a].stat].phase = "A"
    BY <1>0, <2>1 DEF RowToUpdate, NewestOfA, Row
  <2>3. W = V
    BY <2>1, <2>2 DEF Verifieds
  <2>4. run' = [run EXCEPT ![a] = [run[a] EXCEPT !.pc = "review"]] /\ UNCHANGED <<broker, worker>>
    BY <1>0, <1>7 DEF UpdateStatus, taskVars
  <2>5. run'[a].pc = "review"
    BY <1>0, <2>4 DEF Run
  <2> QED BY <1>1, <2>3, <2>4, <2>5
<1>8. CASE Respond(a)
  BY <1>0, <1>1, <1>8 DEF Respond, AtStep, taskVars, Run
<1>9. CASE RunFails(a)
  BY <1>0, <1>1, <1>9 DEF RunFails, taskVars, Run
<1> QED BY <1>2, <1>3, <1>4, <1>5, <1>6, <1>7, <1>8, <1>9

\* Sending the message of a quiet answer.
LEMMA SendKeepsSingle ==
    ASSUME IInv, NEW a \in Answers, Single(a), ScheduleCelery(a)
    PROVE  Single(a)'
<1>0. run[a] \in Run /\ run \in [Answers -> Run] /\ broker \in [Message -> Nat]
  BY DEF IInv, TypeOK
<1>1. PICK m \in Message : m = First(ApiQueue, a) /\ m.answer = a
  BY DefaultTypes DEF First
<1>2. /\ run[a].pc = "schedule" /\ run'[a].pc = "update" /\ UNCHANGED <<rows, worker>>
      /\ broker' = [broker EXCEPT ![m] = broker[m] + 1]
  BY <1>0, <1>1 DEF ScheduleCelery, AtStep, taskVars, Run
<1>3. Quiet(a) /\ Verifieds(rows[a]) = {}
  BY <1>2 DEF Single
<1>4. broker'[m] = 1 /\ \A n \in Message : n.answer = a /\ n # m => broker'[n] = 0
  BY <1>0, <1>1, <1>2, <1>3 DEF Quiet
<1>5. \A w \in Workers : ~Held(w, a)'
  BY <1>2, <1>3 DEF Quiet, Held
<1>6. OneMessage(a)'
  BY <1>4, <1>5 DEF OneMessage
<1> QED BY <1>2, <1>3, <1>5, <1>6 DEF Single, VerifiedAtMostOnce

\* A worker that takes, reads, appends, acknowledges, fails or dies, without a
\* second delivery.
LEMMA WorkerKeepsSingle ==
    ASSUME IInv, NEW w \in Workers, \A a \in Answers : Single(a),
           TaskStep(w) \/ TaskRaises(w) \/ WorkerLost(w), NEW a \in Answers
    PROVE  Single(a)'
<1>0. /\ rows \in [Answers -> SUBSET Row] /\ broker \in [Message -> Nat]
      /\ worker \in [Workers -> WorkerFrame] /\ worker[w] \in WorkerFrame
      /\ \A m \in Message : m.answer \in Answers
  BY DEF IInv, TypeOK, WorkerFrame, Message
<1>s. Single(a)
  OBVIOUS
<1>1. ASSUME NEW m \in Message, Receive(w, m) PROVE Single(a)'
  <2>1. /\ worker[w].pc = "idle" /\ worker'[w].pc = "read" /\ worker'[w].msg = m
        /\ broker[m] > 0 /\ UNCHANGED <<rows, run>>
        /\ \A u \in Workers : u # w => worker'[u] = worker[u]
        /\ broker' = [broker EXCEPT ![m] = broker[m] - 1]
    BY <1>0, <1>1 DEF Receive, otherThanTasks, apiVars, WorkerFrame
  <2>2. CASE m.answer # a
    <3>1. \A n \in Message : n.answer = a => broker'[n] = broker[n]
      BY <1>0, <2>1, <2>2
    <3>2. ~Held(w, a) /\ ~Held(w, a)'
      BY <2>1, <2>2 DEF Held
    <3> QED BY <2>1, <3>1, <3>2, SingleKept
  <2>3. CASE m.answer = a
    <3>1. \A n \in Message : n.answer = a => broker'[n] = 0
      <4>1. broker[m] = 1
        BY <1>s, <2>1, <2>3 DEF Single, OneMessage
      <4>2. \A n \in Message : n.answer = a /\ n # m => broker[n] = 0
        BY <1>0, <1>s, <2>1, <2>3 DEF Single, OneMessage
      <4> QED BY <1>0, <2>1, <4>1, <4>2
    <3>2. \A u \in Workers : Held(u, a)' => u = w
      BY <1>0, <1>s, <2>1, <2>3 DEF Single, OneMessage, Held
    <3>3. ~Quiet(a)
      BY <2>1, <2>3 DEF Quiet
    <3>4. OneMessage(a)'
      BY <3>1, <3>2 DEF OneMessage
    <3> QED BY <1>s, <2>1, <3>2, <3>3, <3>4 DEF Single, VerifiedAtMostOnce
  <2> QED BY <2>2, <2>3
<1>2. ASSUME worker[w].pc # "idle",
             TaskStep(w) \/ TaskRaises(w) \/ WorkerLost(w)
      PROVE  Single(a)'
  <2>0. PICK mine \in Message : mine = worker[w].msg
    BY <1>0 DEF WorkerFrame
  <2>r. /\ Again(mine).answer = mine.answer
        /\ mine.retries < MaxRetries => Again(mine) \in Message
    BY BoundsAssumption DEF Again, Message
  <2>1. /\ UNCHANGED run
        /\ \A u \in Workers : u # w => worker'[u] = worker[u]
        /\ \A x \in Answers : x # mine.answer => rows'[x] = rows[x]
        /\ worker'[w].pc # "idle" => worker'[w].msg = mine
        /\ \/ broker' = broker
           \/ /\ worker'[w].pc = "idle"
              /\ \E m \in Message : m.answer = mine.answer
                                    /\ broker' = [broker EXCEPT ![m] = broker[m] + 1]
    <3>1. CASE WorkerRead(w)
      BY <1>0, <2>0, <3>1 DEF WorkerRead, otherThanTasks, apiVars, WorkerFrame
    <3>2. CASE WorkerSkips(w)
      BY <1>0, <2>0, <3>2 DEF WorkerSkips, otherThanTasks, apiVars, WorkerFrame
    <3>3. CASE WorkerAppend(w)
      BY <1>0, <2>0, <3>3 DEF WorkerAppend, otherThanTasks, apiVars, WorkerFrame
    <3>4. CASE Ack(w)
      BY <1>0, <3>4, DefaultTypes DEF Ack, otherThanTasks, apiVars
    <3>5. CASE WorkerLost(w)
      BY <1>0, <2>0, <3>5, DefaultTypes DEF WorkerLost, otherThanTasks, apiVars
    <3>6. CASE TaskRaises(w)
      <4>1. /\ worker' = [worker EXCEPT ![w] = NoTask] /\ UNCHANGED <<rows, run>>
            /\ \/ broker' = broker
               \/ /\ mine.retries < MaxRetries
                  /\ broker' = [broker EXCEPT ![Again(mine)] = broker[Again(mine)] + 1]
        BY <2>0, <3>6 DEF TaskRaises, otherThanTasks, apiVars
      <4> QED BY <1>0, <2>r, <4>1, DefaultTypes
    <3>7. ~\E m \in Message : Receive(w, m)
      <4>1. worker[w].pc # "idle"
        BY <1>2
      <4> QED BY <4>1 DEF Receive
    <3> QED BY <1>2, <3>1, <3>2, <3>3, <3>4, <3>5, <3>6, <3>7 DEF TaskStep
  <2>2. CASE mine.answer # a
    <3>1. \A n \in Message : n.answer = a => broker'[n] = broker[n]
      BY <1>0, <2>1, <2>2
    <3>2. ~Held(w, a) /\ ~Held(w, a)'
      BY <2>0, <2>1, <2>2 DEF Held
    <3> QED BY <2>1, <2>2, <3>1, <3>2, SingleKept
  <2>3. CASE mine.answer = a
    <3>1. Held(w, a)
      BY <1>2, <2>0, <2>3 DEF Held
    <3>2. /\ \A n \in Message : n.answer = a => broker[n] = 0
          /\ \A u \in Workers : u # w => ~Held(u, a)
      BY <1>s, <3>1 DEF Single, OneMessage
    <3>3. \A u \in Workers : Held(u, a)' => u = w
      BY <2>1, <3>2 DEF Held
    <3>4. OneMessage(a)'
      <4>1. CASE broker' = broker
        BY <3>2, <3>3, <4>1 DEF OneMessage
      <4>2. CASE worker'[w].pc = "idle"
                 /\ \E m \in Message : m.answer = mine.answer
                                       /\ broker' = [broker EXCEPT ![m] = broker[m] + 1]
        <5>1. PICK m \in Message :
                  m.answer = a /\ broker' = [broker EXCEPT ![m] = broker[m] + 1]
          BY <2>3, <4>2
        <5>2. broker'[m] = 1 /\ \A n \in Message : n.answer = a /\ n # m => broker'[n] = 0
          BY <1>0, <3>2, <5>1
        <5>3. \A u \in Workers : ~Held(u, a)'
          BY <3>3, <4>2 DEF Held
        <5> QED BY <5>2, <5>3 DEF OneMessage
      <4> QED BY <2>1, <4>1, <4>2
    <3>5. run'[a].pc \notin {"idle", "store", "schedule", "inlineAppend"}
      BY <1>s, <2>1, <3>1 DEF Single, Quiet
    <3>6. VerifiedAtMostOnce(a)' /\ (worker'[w].pc = "append" => Verifieds(rows'[a]) = {})
      <4>1. CASE WorkerRead(w)
        <5>1. UNCHANGED rows /\ \E r \in rows[a] : NeedsVerification(rows[a], r)
          BY <2>0, <2>3, <4>1 DEF WorkerRead, Unverified
        <5>2. Good(rows[a], clock[a]) /\ rows[a] \in SUBSET Row
          BY <1>0 DEF IInv, AnswersInv
        <5>3. Verifieds(rows[a]) = {}
          BY <5>1, <5>2 DEF NeedsVerification, Newest, Good, Verifieds, Row
        <5> QED BY <5>1, <5>3 DEF VerifiedAtMostOnce
      <4>2. CASE WorkerAppend(w)
        <5>1. /\ worker[w].pc = "append" /\ worker'[w].pc = "ack"
              /\ rows'[a] = rows[a] \cup {worker[w].row}
          BY <1>0, <2>0, <2>3, <4>2 DEF WorkerAppend, WorkerFrame
        <5>2. Verifieds(rows[a]) = {}
          BY <1>s, <3>1, <5>1 DEF Single
        <5> QED BY <5>1, <5>2 DEF VerifiedAtMostOnce, Verifieds
      <4>3. CASE WorkerSkips(w)
        <5>1. worker'[w].pc = "ack" /\ UNCHANGED rows
          BY <1>0, <4>3 DEF WorkerSkips, WorkerFrame
        <5> QED BY <1>s, <5>1 DEF Single, VerifiedAtMostOnce
      <4>4. CASE Ack(w) \/ TaskRaises(w) \/ WorkerLost(w)
        <5>1. worker'[w].pc = "idle" /\ UNCHANGED rows
          BY <1>0, <4>4, DefaultTypes DEF Ack, TaskRaises, WorkerLost
        <5> QED BY <1>s, <5>1 DEF Single, VerifiedAtMostOnce
      <4>5. ~\E m \in Message : Receive(w, m)
        <5>1. worker[w].pc # "idle"
          BY <1>2
        <5> QED BY <5>1 DEF Receive
      <4> QED BY <1>2, <4>1, <4>2, <4>3, <4>4, <4>5 DEF TaskStep
    <3> QED BY <3>3, <3>4, <3>5, <3>6 DEF Single
  <2> QED BY <2>2, <2>3
<1>3. CASE worker[w].pc = "idle"
  BY <1>1, <1>3
  DEF TaskStep, WorkerRead, WorkerSkips, WorkerAppend, Ack, TaskRaises, WorkerLost
<1> QED BY <1>2, <1>3

LEMMA OneStep == IInv /\ OneInv /\ [Next]_vars => OneInv'
<1> SUFFICES ASSUME IInv, OneInv, [Next]_vars, duplicates' = 0, NEW b \in Answers
             PROVE  Single(b)'
  BY DEF OneInv
<1>0. /\ run \in [Answers -> Run] /\ rows \in [Answers -> SUBSET Row]
      /\ duplicates \in Nat /\ broker \in [Message -> Nat]
  BY BoundsAssumption DEF IInv, TypeOK
<1>1. ASSUME NEW w \in Workers, DeliverAgain(w) PROVE FALSE
  BY <1>0, <1>1 DEF DeliverAgain
<1>2. duplicates = 0 => \A a \in Answers : Single(a)
  BY DEF OneInv
<1>3. ASSUME NEW a \in Answers,
             \/ \E mode \in Modes, required \in BOOLEAN : Generate(a, mode, required)
             \/ StoreAnswer(a) \/ ScheduleNoop(a) \/ InlineRead(a) \/ InlineAppend(a)
             \/ UpdateStatus(a) \/ Respond(a) \/ RunFails(a)
      PROVE  Single(b)'
  <2>1. /\ UNCHANGED <<broker, worker, duplicates>>
        /\ \A x \in Answers : x # a => run'[x] = run[x] /\ rows'[x] = rows[x]
    <3>1. CASE \E mode \in Modes, required \in BOOLEAN : Generate(a, mode, required)
      BY <1>0, <3>1 DEF Generate, taskVars
    <3>2. CASE StoreAnswer(a)
      BY <1>0, <3>2 DEF StoreAnswer, taskVars
    <3>3. CASE ScheduleNoop(a)
      BY <1>0, <3>3 DEF ScheduleNoop, taskVars
    <3>4. CASE InlineRead(a)
      BY <1>0, <3>4 DEF InlineRead, taskVars
    <3>5. CASE InlineAppend(a)
      BY <1>0, <3>5 DEF InlineAppend, taskVars
    <3>6. CASE UpdateStatus(a)
      BY <1>0, <3>6 DEF UpdateStatus, taskVars
    <3>7. CASE Respond(a)
      BY <1>0, <3>7 DEF Respond, taskVars
    <3>8. CASE RunFails(a)
      BY <1>0, <3>8 DEF RunFails, taskVars
    <3> QED BY <1>3, <3>1, <3>2, <3>3, <3>4, <3>5, <3>6, <3>7, <3>8
  <2>2. Single(b)
    BY <1>2, <2>1
  <2>3. CASE a = b
    BY <1>3, <2>2, <2>3, CallKeepsSingle
  <2>4. CASE a # b
    BY <2>1, <2>2, <2>4, SingleKept
  <2> QED BY <2>3, <2>4
<1>4. ASSUME NEW a \in Answers, ScheduleCelery(a) PROVE Single(b)'
  <2>1. PICK m \in Message : m = First(ApiQueue, a) /\ m.answer = a
    BY DefaultTypes DEF First
  <2>2. /\ UNCHANGED <<worker, duplicates, rows>>
        /\ \A x \in Answers : x # a => run'[x] = run[x]
        /\ broker' = [broker EXCEPT ![m] = broker[m] + 1]
    BY <1>0, <1>4, <2>1 DEF ScheduleCelery, taskVars
  <2>3. Single(b)
    BY <1>2, <2>2
  <2>4. CASE a = b
    BY <1>4, <2>3, <2>4, SendKeepsSingle
  <2>5. CASE a # b
    <3>1. \A n \in Message : n.answer = b => broker'[n] = broker[n]
      BY <1>0, <2>1, <2>2, <2>5
    <3> QED BY <2>2, <2>3, <2>5, <3>1, SingleKept
  <2> QED BY <2>4, <2>5
<1>5. ASSUME NEW w \in Workers, TaskStep(w) \/ TaskRaises(w) \/ WorkerLost(w)
      PROVE  Single(b)'
  <2>1. duplicates' = duplicates
    <3>1. CASE \E m \in Message : Receive(w, m)
      BY <3>1 DEF Receive
    <3>2. CASE WorkerRead(w)
      BY <3>2 DEF WorkerRead
    <3>5. CASE WorkerSkips(w)
      BY <3>5 DEF WorkerSkips
    <3>3. CASE WorkerAppend(w) \/ Ack(w)
      BY <3>3 DEF WorkerAppend, Ack
    <3>4. CASE TaskRaises(w) \/ WorkerLost(w)
      BY <3>4 DEF TaskRaises, WorkerLost
    <3> QED BY <1>5, <3>1, <3>2, <3>3, <3>4, <3>5 DEF TaskStep
  <2> QED BY <1>2, <1>5, <2>1, WorkerKeepsSingle
<1>6. CASE UNCHANGED vars
  BY <1>2, <1>6, SingleKept DEF vars, apiVars, taskVars
<1> QED BY <1>1, <1>3, <1>4, <1>5, <1>6 DEF Next, RunStep

\* Retries and lost workers, however many, never make verify append twice.
THEOREM VerifiedUnlessOverlap == Spec => []OneVerificationUnlessOverlap
<1>1. Init => OneInv
  BY DefaultTypes
  DEF Init, OneInv, Single, OneMessage, VerifiedAtMostOnce, Quiet, Held, Verifieds
<1>2. OneInv => OneVerificationUnlessOverlap
  BY DEF OneInv, Single, VerifiedAtMostOnce, Verifieds, OneVerificationUnlessOverlap
<1> QED BY <1>1, <1>2, OneStep, Invariance, PTL DEF Spec
=============================================================================
