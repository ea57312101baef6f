---------------------------- MODULE QueryService ----------------------------
(***************************************************************************)
(* The life of an answer: QueryService.run stores the Phase A answer and   *)
(* hands Phase B to a scheduler; PhaseBService.verify, called in the API   *)
(* thread by the inline scheduler or by the worker task                    *)
(* lattice_jit.phase_b.verify, appends the verified answer; get_answer     *)
(* shows the newest of the rows stored.  Every repository call is one      *)
(* transaction and one step here.                                          *)
(*                                                                         *)
(* The broker delivers a message at least once: the task acknowledges late *)
(* (acks_late), a lost worker's message comes back (reject_on_worker_lost) *)
(* and one that is held too long is handed to a second worker.  An answer  *)
(* text is abstracted to the number of Phase B suffixes it carries; the    *)
(* hosts' clocks agree, and as only rows of one answer are ever compared,  *)
(* a created_at is a reading of that answer's own clock.                   *)
(***************************************************************************)
EXTENDS Integers, FiniteSets

CONSTANTS
    Answers,       \* answer ids: one per call of QueryService.run
    Workers,       \* Celery worker processes
    Modes,         \* the phase_b_mode values clients send
    Schedulers,    \* the Phase B schedulers a deployment may select
    ApiQueue,      \* default queue of the Celery app the API sends with
    WorkerQueue,   \* the queue the worker consumes
    MaxRetries,    \* settings.celery_task_max_retries
    MaxLost,       \* bound: workers lost in a behaviour
    MaxDuplicates  \* bound: second deliveries of a message still being worked on

ASSUME ChoicesAssumption ==
    /\ Modes \subseteq {"auto", "off", "force"}
    /\ Schedulers \subseteq {"inline", "noop", "celery"}
    /\ Answers # {}

ASSUME BoundsAssumption ==
    /\ MaxRetries \in Nat
    /\ MaxLost \in Nat
    /\ MaxDuplicates \in Nat

VARIABLES
    scheduler,   \* the scheduler build_container selected
    rows,        \* table answer_events: the rows of each answer
    clock,       \* the time utcnow() returns next, per answer
    run,         \* the locals of each call of QueryService.run
    told,        \* the phase_b_status of its response
    broker,      \* the copies of each message waiting in the broker
    worker,      \* the task each worker is on
    gaveUp,      \* answers whose task failed with its retries used up
    lost,        \* workers lost so far
    duplicates   \* second deliveries so far

apiVars == <<run, told>>
taskVars == <<worker, gaveUp, lost, duplicates>>
vars == <<scheduler, rows, clock, apiVars, broker, taskVars>>

(***************************************************************************)
(* Values.                                                                 *)
(***************************************************************************)
Row == [phase : {"A", "B"}, checks : Nat, at : Nat,
        stat : {"off", "queued", "complete", "failed"}]

RunSteps == {"idle", "store", "schedule", "inlineAppend", "update", "review",
             "done", "failed"}

Run == [pc : RunSteps, mode : Modes \cup {"off"}, required : BOOLEAN, row : Row,
        stat : {"off", "queued", "complete", "failed"}]

Message == [on : {ApiQueue, WorkerQueue}, answer : Answers, retries : 0..MaxRetries]

WorkerSteps == {"idle", "read", "append", "ack"}

WorkerFrame == [pc : WorkerSteps, msg : Message, row : Row]

NoRow == [phase |-> "A", checks |-> 0, at |-> 0, stat |-> "off"]

NoRun == [pc |-> "idle", mode |-> "off", required |-> FALSE, row |-> NoRow, stat |-> "off"]

First(q, a) == [on |-> q, answer |-> a, retries |-> 0]

NoTask == [pc |-> "idle", msg |-> First(WorkerQueue, CHOOSE a \in Answers : TRUE),
           row |-> NoRow]

(***************************************************************************)
(* repository.get_latest_answer: the row with the newest created_at.       *)
(***************************************************************************)
\* Mutant of Newest: ascending instead of descending.
Oldest(R, r) == \A s \in R : s.at >= r.at

Newest(R, r) == \A s \in R : s.at <= r.at

NewestOfA(R, r) ==
    r.phase = "A" /\ \A s \in R : s.phase = "A" => s.at <= r.at

\* Mutant of NeedsVerification: verify forgets its early return.
AnyNewest(R, r) == Newest(R, r)

\* verify goes on only if the newest row is of phase A.
NeedsVerification(R, r) == Newest(R, r) /\ r.phase = "A"

\* Mutant of Verified: a phase_b_status nobody else knows.
VerifiedOtherwise(a, r) ==
    [phase |-> "B", checks |-> r.checks + 1, at |-> clock[a], stat |-> "verified"]

\* verify: the new row is a copy of the one it read.
Verified(a, r) ==
    [phase |-> "B", checks |-> r.checks + 1, at |-> clock[a], stat |-> "complete"]

-----------------------------------------------------------------------------
Init ==
    /\ scheduler \in Schedulers
    /\ rows = [a \in Answers |-> {}]
    /\ clock = [a \in Answers |-> 0]
    /\ run = [a \in Answers |-> NoRun]
    /\ told = [a \in Answers |-> "nothing"]
    /\ broker = [m \in Message |-> 0]
    /\ worker = [w \in Workers |-> NoTask]
    /\ gaveUp = {}
    /\ lost = 0
    /\ duplicates = 0

(***************************************************************************)
(* QueryService.run.                                                       *)
(***************************************************************************)
AtStep(a, step) == run[a].pc = step

\* The conditions of the two branches that schedule Phase B.
Wanted(mode, required) == (mode # "off" /\ required) \/ mode = "force"

\* A call up to the Phase A answer: the snapshot exists, the policy is
\* evaluated to a bundle, a manifest is compiled and the text is generated.
Generate(a, mode, required) ==
    /\ AtStep(a, "idle")
    /\ run' = [run EXCEPT ![a] =
           [pc |-> "store", mode |-> mode, required |-> required, stat |-> "off",
            row |-> [phase |-> "A", checks |-> 0, at |-> clock[a], stat |-> "off"]]]
    /\ clock' = [clock EXCEPT ![a] = @ + 1]
    /\ UNCHANGED <<scheduler, rows, told, broker, taskVars>>

\* repository.store_answer_event for Phase A.
StoreAnswer(a) ==
    /\ AtStep(a, "store")
    /\ rows' = [rows EXCEPT ![a] = rows[a] \cup {run[a].row}]
    /\ run' = [run EXCEPT ![a] =
           [@ EXCEPT !.pc = IF Wanted(run[a].mode, run[a].required)
                           THEN "schedule" ELSE "review",
                     !.row = NoRow]]
    /\ UNCHANGED <<scheduler, clock, told, broker, taskVars>>

ScheduleNoop(a) ==
    /\ AtStep(a, "schedule")
    /\ scheduler = "noop"
    /\ run' = [run EXCEPT ![a] = [@ EXCEPT !.pc = "update", !.stat = "queued"]]
    /\ UNCHANGED <<scheduler, rows, clock, told, broker, taskVars>>

\* Mutant of ScheduleCelery: the message is never sent.
QueuedUnsent(a) ==
    /\ AtStep(a, "schedule")
    /\ scheduler = "celery"
    /\ run' = [run EXCEPT ![a] = [@ EXCEPT !.pc = "update", !.stat = "queued"]]
    /\ UNCHANGED <<scheduler, rows, clock, told, broker, taskVars>>

\* send_task: the message goes to the default queue of the scheduler's own app.
ScheduleCelery(a) ==
    /\ AtStep(a, "schedule")
    /\ scheduler = "celery"
    /\ broker' = [broker EXCEPT ![First(ApiQueue, a)] = @ + 1]
    /\ run' = [run EXCEPT ![a] = [@ EXCEPT !.pc = "update", !.stat = "queued"]]
    /\ UNCHANGED <<scheduler, rows, clock, told, taskVars>>

\* PhaseBService.verify in the API thread: it reads the newest row ...
InlineRead(a) ==
    /\ AtStep(a, "schedule")
    /\ scheduler = "inline"
    /\ \E r \in rows[a] :
           /\ NeedsVerification(rows[a], r)
           /\ run' = [run EXCEPT ![a] =
                  [@ EXCEPT !.pc = "inlineAppend", !.row = Verified(a, r)]]
    /\ clock' = [clock EXCEPT ![a] = @ + 1]
    /\ UNCHANGED <<scheduler, rows, told, broker, taskVars>>

\* ... and appends the verified one.
InlineAppend(a) ==
    /\ AtStep(a, "inlineAppend")
    /\ rows' = [rows EXCEPT ![a] = rows[a] \cup {run[a].row}]
    /\ run' = [run EXCEPT ![a] = [@ EXCEPT !.pc = "update", !.stat = "complete", !.row = NoRow]]
    /\ UNCHANGED <<scheduler, clock, told, broker, taskVars>>

\* Mutant of RowToUpdate: the query forgets phase == "A".
NewestRow(R, r) == Newest(R, r)

RowToUpdate(R, r) == NewestOfA(R, r)

\* repository.update_phase_a_phase_b_status.
UpdateStatus(a) ==
    /\ AtStep(a, "update")
    /\ \E r \in rows[a] :
           /\ RowToUpdate(rows[a], r)
           /\ rows' = [rows EXCEPT ![a] =
                  (rows[a] \ {r}) \cup {[r EXCEPT !.stat = run[a].stat]}]
    /\ run' = [run EXCEPT ![a] = [@ EXCEPT !.pc = "review"]]
    /\ UNCHANGED <<scheduler, clock, told, broker, taskVars>>

\* maybe_queue_review returns, and then run does.
Respond(a) ==
    /\ AtStep(a, "review")
    /\ run' = [run EXCEPT ![a] = [@ EXCEPT !.pc = "done"]]
    /\ told' = [told EXCEPT ![a] = run[a].stat]
    /\ UNCHANGED <<scheduler, rows, clock, broker, taskVars>>

InRun(a) == run[a].pc \notin {"idle", "done", "failed"}

\* Any call raises, or the API process dies: nothing is undone.
RunFails(a) ==
    /\ InRun(a)
    /\ run' = [run EXCEPT ![a] = [@ EXCEPT !.pc = "failed", !.row = NoRow]]
    /\ UNCHANGED <<scheduler, rows, clock, told, broker, taskVars>>

(***************************************************************************)
(* The worker task lattice_jit.phase_b.verify.                             *)
(***************************************************************************)
otherThanTasks == <<scheduler, apiVars>>

Receive(w, m) ==
    /\ worker[w].pc = "idle"
    /\ m.on = WorkerQueue
    /\ broker[m] > 0
    /\ broker' = [broker EXCEPT ![m] = @ - 1]
    /\ worker' = [worker EXCEPT ![w] = [@ EXCEPT !.pc = "read", !.msg = m]]
    /\ UNCHANGED <<rows, clock, gaveUp, lost, duplicates, otherThanTasks>>

Unverified(w) == {r \in rows[worker[w].msg.answer] :
                      NeedsVerification(rows[worker[w].msg.answer], r)}

WorkerRead(w) ==
    /\ worker[w].pc = "read"
    /\ \E r \in Unverified(w) :
           worker' = [worker EXCEPT ![w] =
               [@ EXCEPT !.pc = "append", !.row = Verified(worker[w].msg.answer, r)]]
    /\ clock' = [clock EXCEPT ![worker[w].msg.answer] = @ + 1]
    /\ UNCHANGED <<rows, broker, gaveUp, lost, duplicates, otherThanTasks>>

\* The answer is verified already: verify returns it.
WorkerSkips(w) ==
    /\ worker[w].pc = "read"
    /\ Unverified(w) = {}
    /\ worker' = [worker EXCEPT ![w] = [@ EXCEPT !.pc = "ack"]]
    /\ UNCHANGED <<rows, clock, broker, gaveUp, lost, duplicates, otherThanTasks>>

WorkerAppend(w) ==
    /\ worker[w].pc = "append"
    /\ rows' = [rows EXCEPT ![worker[w].msg.answer] =
           rows[worker[w].msg.answer] \cup {worker[w].row}]
    /\ worker' = [worker EXCEPT ![w] = [@ EXCEPT !.pc = "ack", !.row = NoRow]]
    /\ UNCHANGED <<clock, broker, gaveUp, lost, duplicates, otherThanTasks>>

Ack(w) ==
    /\ worker[w].pc = "ack"
    /\ worker' = [worker EXCEPT ![w] = NoTask]
    /\ UNCHANGED <<rows, clock, broker, gaveUp, lost, duplicates, otherThanTasks>>

Again(m) == [m EXCEPT !.retries = m.retries + 1]

\* autoretry_for=(Exception,): the task is sent again, until max_retries is
\* used up.  The exception may be a lost reply of a commit that took place.
TaskRaises(w) ==
    LET m == worker[w].msg
    IN  /\ worker[w].pc # "idle"
        /\ worker' = [worker EXCEPT ![w] = NoTask]
        /\ IF m.retries < MaxRetries
           THEN /\ broker' = [broker EXCEPT ![Again(m)] = @ + 1]
                /\ UNCHANGED gaveUp
           ELSE /\ gaveUp' = gaveUp \cup {m.answer}
                /\ UNCHANGED broker
        /\ UNCHANGED <<rows, clock, lost, duplicates, otherThanTasks>>

\* Mutant of WorkerLost: the task is acknowledged when it is received.
AckedEarly(w) ==
    /\ worker[w].pc # "idle"
    /\ lost < MaxLost
    /\ lost' = lost + 1
    /\ worker' = [worker EXCEPT ![w] = NoTask]
    /\ UNCHANGED <<rows, clock, broker, gaveUp, duplicates, otherThanTasks>>

\* The worker dies: its unacknowledged message is back in the queue.
WorkerLost(w) ==
    /\ worker[w].pc # "idle"
    /\ lost < MaxLost
    /\ lost' = lost + 1
    /\ broker' = [broker EXCEPT ![worker[w].msg] = @ + 1]
    /\ worker' = [worker EXCEPT ![w] = NoTask]
    /\ UNCHANGED <<rows, clock, gaveUp, duplicates, otherThanTasks>>

\* The visibility timeout of the broker passes while the worker is still busy.
DeliverAgain(w) ==
    /\ worker[w].pc # "idle"
    /\ duplicates < MaxDuplicates
    /\ duplicates' = duplicates + 1
    /\ broker' = [broker EXCEPT ![worker[w].msg] = @ + 1]
    /\ UNCHANGED <<rows, clock, worker, gaveUp, lost, otherThanTasks>>

-----------------------------------------------------------------------------
RunStep(a) ==
    \/ StoreAnswer(a) \/ ScheduleNoop(a) \/ ScheduleCelery(a)
    \/ InlineRead(a) \/ InlineAppend(a) \/ UpdateStatus(a) \/ Respond(a)

TaskStep(w) ==
    \/ \E m \in Message : Receive(w, m)
    \/ WorkerRead(w) \/ WorkerSkips(w) \/ WorkerAppend(w) \/ Ack(w)

Next ==
    \/ \E a \in Answers :
           \/ \E mode \in Modes, required \in BOOLEAN : Generate(a, mode, required)
           \/ RunStep(a)
           \/ RunFails(a)
    \/ \E w \in Workers :
           TaskStep(w) \/ TaskRaises(w) \/ WorkerLost(w) \/ DeliverAgain(w)

Spec == Init /\ [][Next]_vars

\* A request being served goes on, and the workers take what is in their queue.
\* Nobody is obliged to ask, to fail or to deliver twice.
FairSpec ==
    /\ Spec
    /\ \A a \in Answers : WF_vars(RunStep(a))
    /\ \A w \in Workers : WF_vars(TaskStep(w))

-----------------------------------------------------------------------------
(***************************************************************************)
(* Properties.                                                             *)
(***************************************************************************)

\* Every variable keeps the shape the code gives it.
TypeOK ==
    /\ scheduler \in Schedulers
    /\ rows \in [Answers -> SUBSET Row]
    /\ clock \in [Answers -> Nat]
    /\ run \in [Answers -> Run]
    /\ told \in [Answers -> {"nothing", "off", "queued", "complete", "failed"}]
    /\ broker \in [Message -> Nat]
    /\ worker \in [Workers -> WorkerFrame]
    /\ gaveUp \subseteq Answers
    /\ lost \in 0..MaxLost
    /\ duplicates \in 0..MaxDuplicates

\* However often verify is delivered, retried or run twice at the same time, the
\* text of a stored answer carries the verification once: none in a Phase A row,
\* one in a Phase B row, because verify returns a row that is already verified.
VerifiedOnce ==
    \A a \in Answers : \A r \in rows[a] : r.checks = IF r.phase = "B" THEN 1 ELSE 0

\* Once the response is out, its phase_b_status is the one of the stored Phase A
\* row, even if the verified row was stored before the update.
RowAgreesWithResponse ==
    \A a \in Answers :
        told[a] # "nothing" =>
            \E r \in rows[a] : NewestOfA(rows[a], r) /\ r.stat = told[a]

\* A response that says "queued" was backed by a message, and the message is not
\* lost by any failure of a worker: it waits, is being worked on, led to the
\* verified answer, or its task used up its retries.
InBroker(a) == \E m \in Message : m.answer = a /\ broker[m] > 0
OnWorker(a) == \E w \in Workers : worker[w].pc # "idle" /\ worker[w].msg.answer = a
HasVerified(a) == \E r \in rows[a] : r.phase = "B"
HandedOver ==
    \A a \in Answers :
        scheduler = "celery" /\ told[a] = "queued" =>
            InBroker(a) \/ OnWorker(a) \/ HasVerified(a) \/ a \in gaveUp

\* Retries and lost workers never make verify append a second row: only a second
\* delivery that overlaps the first can.
OneVerificationUnlessOverlap ==
    duplicates = 0 =>
        \A a \in Answers : \A r, s \in rows[a] : r.phase = "B" /\ s.phase = "B" => r = s

\* The service keeps what AnswerLifecycle promises: polling goes from nothing to
\* the provisional to the verified answer and never back, and "complete" is only
\* ever told of an answer that is shown verified.
View(R) ==
    IF \E r \in R : Newest(R, r) /\ r.phase = "B" THEN "verified"
    ELSE IF R = {} THEN "nothing" ELSE "provisional"
Shown(a) == View(rows[a])

Lifecycle == INSTANCE AnswerLifecycle WITH shown <- [a \in Answers |-> Shown(a)]
KeepsPromises == Lifecycle!Spec

\* docs/architecture.md:8-9 hands Phase B to Celery and lets the client poll for the
\* verified answer: one that was told "queued" becomes verified, unless its task
\* failed for good.
QueuedIsVerified ==
    \A a \in Answers :
        scheduler = "celery" /\ told[a] = "queued" ~>
            Shown(a) = "verified" \/ a \in gaveUp
=============================================================================
