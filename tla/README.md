# Verification of lattice_jit

TLA+ models of the parts of `lattice_jit` where several threads, worker processes and
transactions meet, the TLC runs that check them, and TLAPS proofs of the properties that
matter most. Paths are those of the repository; `P/x` is short for
`src/packages/x/src/lattice_jit/x`.

Run a model with `tlc -config <run>.cfg <MC module>.tla`, check proofs with
`tlapm <Module>Proofs.tla`. `PROJECT.json` names the run, the properties and, for every
definition, the source lines it stands for.

## 1. The system

A FastAPI process serves every request in a thread of its own (the endpoints are plain
`def`). Celery workers run four tasks. Both build the same container
(`P/core/wiring.py`) over one SQL database and one Redis. Nothing is held in a lock and no
transaction spans two repository calls: **each repository or cache call is its own
transaction, and all that is read before one and used after it may be out of date.** That
is why the unit of interleaving in every module here is one such call.

| Component | State | Operations | Talks to |
|---|---|---|---|
| Context compiler (`P/runtime/compiler.py`, `P/storage/cache.py`) | tables of manifests and items; Redis keys `manifest:<hash>` | `compile`; worker task `cache.invalidate` | database, Redis, audit log |
| Query service (`P/runtime/service.py`, `phase_b.py`) | `answer_events` rows | `run`, `get_answer`, `verify`; three Phase B schedulers | policy, router, compiler, model, review queue; worker through the broker |
| Review queue (`P/governance/review.py`, `load_shedding.py`) | `review_queue`, node rows, audit events | `maybe_queue_review`, `queue`, `approve_review`, `reject_review` | database |
| Governance scan (`review.py`, `adaptive_decay.py`, `calibration.py`) | node rows, feedback labels | `run_governance_scan` | rewrites the nodes the reviews also write |
| Snapshot ingestion (four connectors, worker task) | `source_snapshots`, nodes, edges, audit events | `create_pending_snapshot`, `continue_ingest`, `ingest` | API thread and worker may do it at once |
| Policy evaluator (`P/policy/service.py`, OPA) | none | `evaluate` with fallback | OPA sidecar, for each query |
| Rate limiter, authentication (`P/core/rate_limit.py`, `auth.py`) | a window of timestamps per key and tier | middlewares of the API | run before every endpoint, limiter first |
| Router, ranking, embeddings, provenance (`P/runtime/routing.py`, `embedding.py`, `P/lattice/ranking.py`, `provenance.py`) | the embedding service of the process: a flag and a model loaded at first use | `select`, `encode`, `build_provenance` | called by `run` in every thread, over snapshots that may still be ingested |
| Lattice graph (`P/lattice/graph.py`) | the list of edges it is given | cycle breaking, dirty propagation | called by tests only |
| Verifier (`P/verifier`) | none | tournament, rewards, citations | a model; not wired in |
| Dead letter queue, worker health | a Redis list | `_push_to_dlq` (no caller), `/v1/worker/dlq` | - |

What is hard in it: lost updates (whole rows are read, changed and merged back), a cache
filled from what was read before an invalidation, tasks that are acknowledged late and so
run again from the start, failures between two commits of one operation, and clients that
are told something before it is so. `PROJECT.json` lists each of these hazards at its line
with the property that would be violated if it went wrong, or, where the code does go
wrong and no document says that it should not, what is checked nearby.

What makes each component correct:

* compiler: a key refers to a stored manifest of its hash; a hash has one active manifest
  unless two calls compiled it at once; an invalidation is final once it has reached all of
  row, key and calls in flight; a manifest fits its budget;
* query service: polling never goes back, the response never runs ahead of the database,
  a verification is appended once, and a queued one is done or given up;
* review queue: a fact is counted as often as it was reported, unless reports overlap, and
  never more often; what is audited is there; a node carries the decision on its items, in
  full, unless one of four things came between the steps of a review;
* ingestion: COMPLETED means all of it is there, for good, and once, unless the source was
  read twice; a task that was sent ends; a PDF's pages are where its headings put them;
* retrieval: an answer cites nodes of the snapshot its query read, all that its manifest
  names, with whole sections up to the budget, and leads with a relevant one, unless nodes
  were asked for by id or no relevance found outweighs the confidence in a root;
* governance scan: decay does not add up over scans, the curve is the isotonic regression
  of the labels, calibration keeps the order of nodes;
* lattice graph: dirty is exactly what depends on the change, and only cyclic graphs lose
  an edge, none that merely leads to the cycle;
* verifier: the winner has the highest score, the list of sources settles the citations;
* gateway: a window never holds more than its limit and refuses nobody earlier, the wait
  it tells is right, and what a query is held to does not depend on OPA being up.

## 2. Modules

| Module | Models | Instance |
|---|---|---|
| `ContextCompiler` | `ContextCompiler.compile`, the cache, `cache.invalidate` | `MCContextCompiler` |
| `AnswerLifecycle` | abstract: what a client may rely on | refined by `QueryService` |
| `QueryService` | `QueryService.run`, schedulers, `PhaseBService.verify` as call and as task | `MCQueryService` |
| `ReviewQueue` | reports, reviews, the node writes of the governance scan | `MCReviewQueue` |
| `GovernanceScan` | `run_governance_scan` over and over: decay, labels, `compute_pava`, calibration | `MCGovernanceScan` |
| `SnapshotIngest` | both phases of ingestion in a thread and as a task | `MCSnapshotIngest` |
| `Gateway` | rate limiter, authentication, policy evaluation with OPA | `MCGateway` |
| `LatticeGraph` | `compute_dirty_propagation`, `resolve_cycles` | `MCLibrary` |
| `Verifier` | model scores, the tournament of `select_best`, the reward | `MCLibrary` |
| `Retrieval` | `run` up to the provenance: snapshot, nodes, routers, embeddings, reuse of manifests | `MCLibrary` |
| `PdfLayout` | the nodes and edges of a directory of PDFs, five modes and the fallback | `MCLibrary` |
| `Citations` | `validate_answer_citations`, `build_sources_section` | `MCLibrary` |
| `Library` | the composition of the five above, which share nothing: one is in use while the others keep still | `MCLibrary` |
| `Arrangement` | sorted lists and sublists, as functions of the position | |
| `*Proofs` | theorems about the module of the same name | |
| `Induction` | facts about sets, sums, sorting and recursion that the proofs need | |

All modules have the same form. Tables and Redis are variables; a row is a record. The
locals of a call in progress are a record per thread or worker whose `pc` names the
repository call that comes next; an action is that call with the code up to the next one.
`...Fails`, `...Raises` and `...Lost` actions end a call between any two of its steps.
Definitions commented "Mutant of X" are plausible bugs that the properties are shown to
catch when they take the place of X; the specifications do not use them.

**ContextCompiler.** `cacheGet -> cacheLoad -> find -> (fillCache | expand -> pack ->
store -> setCache)`. Nodes, BELONGS_TO edges, sections and text lengths are constants;
`ExpandNode` and `PackNode` are one iteration each of the two loops, with the four
characters per token arithmetic of the code. The order of a set of siblings is arbitrary,
as that of a Python set, and so is whether a failing section lookup adds anything (the code
swallows the exception). `created_at` is abstracted to the order of manifest ids.
`Expire` is the TTL. A task has a phase per commit; a retry and a redelivery start over.
`missed` records the hashes that two calls at once found no manifest for, for
`OneActiveUnlessOverlap` only.

**QueryService.** One call of `run` per answer from the Phase A row on; what comes before
has no effect on other calls and is the one step `Generate` with an arbitrary mode and
`phase_b_required`. A row's text is abstracted to how many Phase B suffixes it carries.
The broker is a bag of messages; a worker that is lost or slow leaves a copy behind.
The queue the API sends to and the one the worker consumes are constants, for the code
chooses them in two places.

**ReviewQueue.** Facts stand for fingerprints. A report is find, upsert, audit; a review is
update, audit, read the node, write the node; a scan reads all nodes and writes arbitrary
subsets of them twice, as they were read. `Shed` stands for the sampling and the sliding
window of `_within_rate_limit`: anything that is not HIGH may be dropped.
For the properties only, `observed` counts the reports stored, `raced` has the facts of
which two reports at once were between looking the item up and writing it, and `disturbed`
the nodes of which something came between the steps of a review: another review, a failure
after the first step, a report that wrote back an item with another review state, a scan
that wrote back the node with another one.

**SnapshotIngest.** `root -> check -> gather -> nodes -> edges -> complete -> count ->
audit (-> ack)`. What a source holds is an arbitrary member of `Trees` at each reading.
Fresh ids are modelled by the number of the call that made the node, so a retry makes
different nodes for the same file. A thread does all of it, or stops after the root and
leaves the rest to the task; every exception ends a thread's call, and puts a task's
message back until its retries are used up. `completions` records what the calls that set
COMPLETED had read, and `repeated` the snapshots whose source was read by two calls at once
or again after a call had stored its nodes, for the properties only. Nothing under `src`
sends the task, so `Send` is the environment's.

**Gateway.** A request is `unsent -> auth -> endpoint -> done`, with a step `retry` between
`is_allowed` and `retry_after`: the event loop runs nothing else there (`LoopIsFree`), but
the clock goes on, for each reads it. A tick is a fraction of a second, so that the
truncation of `retry_after` shows. A timestamp is represented by the request that left it.
The settings are a variable that never changes: any of the deployments may be the one that
runs. A query is the set of topics it names; `Rego` is `policy.rego`, and an OPA answer is
that result restricted to some of its fields. How `QueryService` uses the decision is
`Schedules`.

**GovernanceScan.** A run of the task reads all nodes, writes the decayed ones, lists the
labels, writes the decayed and the calibrated ones, and audits; another delivery, feedback
and reviews go on between these steps. Confidences are integers up to `Scale`, the
exponential is a table that falls with age, quotients are rounded down. `PavaFrom` is the
loop of `compute_pava` as a recursive function over blocks; `IsotonicFit`, with which
`CurveIsIsotonic` compares it, is the min-max formula of isotonic regression over rounded
means (rounding down keeps their order). `calibrated` and `oldest` record what happened,
for the properties only.

**Retrieval.** A call is `list -> route (-> encode (-> load)) -> find (-> expand) ->
evidence -> answered`, each step one transaction or the code between two; `Commit` is an
ingestion's next commit. A text is how often a term occurs in it and which company it
names; idf, similarities and confidences are percentages, so scores are integers.
`ContextCompiler` has the cache and the token arithmetic that `Find` and `Pack` leave out.
Of the connectors only the PDF one gives nodes the metadata that section expansion looks
for, so its tree is the instance.

**PdfLayout.** A step is one file read by one extractor. `listed` is the Python list that
all files share and that parents are indices of. A page is its matched heading and whether
it has text, or a table no format can be made of. (`SECTION_HEADING_PATTERN` ignores case,
so `[A-Z][A-Z\s]{10,}` takes almost any line for a heading; here headings are given.)

**LatticeGraph, Verifier, Citations.** The loops of `graph.py` are a step per round, with
the queue a set because the code fills it from sets. The tournament judges the pairs in
order, a step each; a model's answer is a sequence of positions with masses on letters. An
answer with citations is a sequence of lines without the blank ones, a line a sequence of
the pieces between its commas: how often a piece says "Source:", whether it has the mark,
and its text. `Scan` reads the lines as `_CITATION_PATTERN` does. White space after
"Source:" or after a comma may be a line break, so `GoesOn` leaves such a source open for
the next line, whatever that is; at the end of the answer a blank is enough for a source,
and nothing is not.

**Arrangement.** Where code sorts or filters a list and a proof has to follow it (ranked
nodes, label pairs, lists of sources), the model says `Arranged` or `Picked`: the k-th place
holds the member with k - 1 before it. `SetToSortSeq` and `SelectSeq` give the same lists,
which `MCLibrary` has TLC check in an `ASSUME`, but go through recursion that the provers
cannot unfold.

## 3. Runs

| Run | States | Shows |
|---|---|---|
| `compile_race` | 1.2 M | two threads against two invalidations: `CacheRefersToStored`, `OneActiveUnlessOverlap`, `InvalidationIsFollowedUp`, `RetiredStaysRetired` |
| `compile_alone` | 158 k | packing over a small document, budgets -1 to 20: `ManifestsFitBudget`, `PackedOnceSelectedFirst` and, in time, `InvalidatedIsForgotten` |
| `answers` | 157 k | every scheduler and mode: `VerifiedOnce`, `RowAgreesWithResponse`, `HandedOver`, `OneVerificationUnlessOverlap`, the refinement `KeepsPromises`, and `QueuedIsVerified` when both sides name one queue |
| `review_race` | 918 k | two reporters, two reviewers and a scan: `CountIsExactUnlessRaced`, `AuditedIsQueued`, `NodeDecisionIsAudited`, `ReviewIsWholeUnlessDisturbed` |
| `governance` | 1.2 M | two runs of the scan with feedback and a review between their steps: `OrderIsKept`, `DecayHasFloor`, `CurveIsIsotonic` |
| `ingest` | 1.5 M | a request and a task on one snapshot: `CompletedIsWhole`, `IngestedOnceUnlessRepeated`, `SettledIsFrozen`, `SentIsIngested` |
| `gateway` | 589 k | three requests until the first leaves its window: `WindowIsExact`, `RetryAfterIsClose`, `HeldToPolicy` |
| `library` | 2.5 M | the parts of `Library`, one at a time: `ResultsAreRight` and `UpstreamSurvives` (graph), `WinnerUnbeaten` (verifier), `ListSettlesReport` (citations), `AnswersFromItsSnapshot` (retrieval), `PagesAreFiled` (PDF) |
| `served_active`, `answers_queued`, `review_decision`, `gateway_tenants` | | violated, see section 4 |

A type invariant is checked in one run of each module. No run checks for deadlock:
requests, tasks and failures are bounded, and a system that has served them all stops.

**Bounds and why they suffice.** The constants named "bound" in the modules (compiles,
reports, reviews, snapshots, tasks sent, workers lost, second deliveries) limit how often
something happens, never in which order. The hazards here are between two actors: one that
read before and one that wrote meanwhile, so two threads or a thread and a worker are
enough, with a third call (`MaxCompiles = 3`) to see the result. One retry and one lost
worker give a task up to three runs; in `answers` the two extra deliveries meet at two
workers. A race does not depend on the sizes of nodes, so `compile_race` has one node that
fits; `compile_alone` has a node that belongs to no section, one without text, one over the
budget, one that is both child and parent, and a query that selects nothing. In `ingest`
the source gains a file between two readings. In `gateway` the window is two seconds of two
ticks each and the clock runs for one window (`MaxTime`), so that a timestamp leaves it
while the next requests come; limits of 2, 1 and 0 make a window partly full, full and
always full. The tenant keys include an invalid pair and a key without a tenant. Policy
evaluations do not depend on each other, so one per behaviour (`MaxEvaluations`) shows them
all; nor do they depend on the limiter, so the deployments with OPA run without one.

`governance` has two nodes, of which one decays faster and the other is canonical, and three
labels, the least number from which a curve is made, over values that change with age; two
runs of the scan either follow or overlap each other, and two days give ages that differ.
In `library` the graphs are all of
four edges between three nodes (parallel edges, loops, cycles with something before and
after them), with equal trusts; the tournament has three trajectories and answers that tie,
fail, or put masses on the same letter twice; an answer has up to three lines out of those
that the patterns tell apart: "Source:" alone, with and without a blank after it, sources
that break off after a comma or after a page and a comma, a page before and after the table
and in a line of its own, a source in a table and in the middle of a line, the mark and the
heading. Its retrieval has two
readers and two requests, which is what it takes to reuse a manifest, or to lose the
embedding model under a request, and two snapshots, one with a section whose second page is
not selected itself; a question names a company that only the second one is about. The PDF
contents are none, blank, a heading that comes back, a table that cannot be formatted on
the second page, and no heading at all, in two files so that indices into the shared list
can go wrong.

Symmetry is used only where callers, reviewers, requests, hosts or readers are
interchangeable and no liveness is checked.

**Fairness.** Weak fairness of each thread's own next step (`CompileStep`, `RunStep`), of
each worker's `TaskStep`, which includes receiving a waiting message, and of key expiry: a
process that runs goes on, a Celery worker consumes its queue, Redis expires keys. Weak
fairness is enough, as nobody can disable another's step for ever. Nobody is obliged to
send a request, to fail, to retry or to deliver twice. `SentIsIngested` and
`QueuedIsVerified` allow for tasks whose retries are used up; the bounds on losses keep
a worker from being lost for ever, which no code could answer.

## 4. Findings

* **`served_active`** A call that read or stored a manifest before an invalidation sets the
  cache key after it (`compiler.py:38`, `:121`): the invalidated manifest is served until the
  TTL, though `tests/unit/test_context_compiler.py:40` asserts the status ACTIVE. What does
  hold is checked beside it: `RetiredStaysRetired`, `InvalidatedIsForgotten`.
* **`answers_queued`** The API sends to Celery's default queue `celery`
  (`wiring.py:181`), the worker consumes `lattice_jit` (`celery_app.py:13`): a queued
  verification never happens, against `docs/architecture.md:8-9`, `:28`. `answers`
  shows that one queue name on both sides is all that is missing.
* **`review_decision`** `LoadSheddingService.queue` merges a row it read earlier,
  `review_state` included: a review is undone by a report that had read the item before
  (`load_shedding.py:34`; `docs/interfaces.md:108`, `:112`).
* **`gateway_tenants`** The limiter runs before authentication has set the tenant
  (`main.py:63`, `rate_limit.py:74`), so the window is one per address, not per tenant
  (`docs/releases/v0.3.0.md:26`).

What the models show besides, without a run of its own. Against a document or a test:

* A sidecar that closes the connection before it answers makes `urlopen` raise
  `http.client.RemoteDisconnected`, which `evaluate` does not catch
  (`policy/service.py:91`): every query fails, where `docs/releases/v0.2.0.md:18` says that
  general queries always fall back.
* The hash and the cache key leave out the policy bundle (`compiler.py:33`): when the policy
  comes to allow fewer tokens, a query is answered with the manifest compiled for more,
  though `tests/unit/test_context_compiler.py:41` asserts
  `actual_tokens <= bundle.max_tokens` of a fresh one. `ManifestsFitBudget` is what remains
  true.
* Two concurrent reports of a fact are counted once (`load_shedding.py:36`), where
  `docs/interfaces.md:98` reads as an exact count; `CountIsCovered` and
  `CountIsExactUnlessRaced` are what remains true.
* A node that decays in a scan is not calibrated in it, where `docs/releases/v0.2.0.md:53`
  says calibration is "applied after decay": the node goes up in one scan and down in the
  next.
* The finance criterion "Guardrails" has the text of no weight's key and takes the default
  weight, so the weights add up to more than 1 and so can the reward, which
  `verifier/reward.py:91` puts in [0, 1].
* The mock distribution uses the letters B, C and D whatever the granularity
  (`verifier/__init__.py:315-320`), though its docstring calls it neutral: it is so for five
  letters only.

Where no document says otherwise:

* A manifest compiled between the commits of nodes and edges lacks the other pages of its
  sections and stays in use for its hash. A query without an id reads the newest snapshot,
  complete or not. The hybrid router ignores the company filter, and once a model failed
  in the middle of a request that request sees no similarity at all, not the lexical one.
* When the structured PDF builder raises half way, its nodes stay and the fallback adds the
  whole file again; when both fail the snapshot is COMPLETED without the file.
* A retry of the scan after its first write sees rows just updated, decays nothing and
  calibrates what would have decayed. Labels of one prediction count by their order only.
* One call of `resolve_cycles` may break an edge downstream of a cycle and leave the cycle.
* A silent outage of the verifier's model gives every trajectory the same score. A letter
  that is returned at two positions has the mass of the later one.
* A source that ends in "Source:" or a comma takes the next line into its name or table
  (`citation.py:109`). An answer that breaks off so takes the heading of the list that is
  appended to it; with a blank after "Source:" it has been a citation with an empty name
  before. A name ends at the first comma; `_NUMBER_PATTERN` is compiled and never used,
  although the docstring of `validate_answer_citations` speaks of numbers.

## 5. Proofs

Every theorem holds for all values of the constants that satisfy the module's `ASSUME`s,
which say only that the sets are of the right kind, that bounds are natural numbers, and,
where something is counted or ordered, that the nodes or files are finite.
`ConfidenceAssumption` also says that decay leaves no more after a longer time, and
`VerifierAssumption` that a score is a natural number; TLC evaluates both.

* **ContextCompilerProofs** - `TypeCorrect`, `CacheAgreesWithStore`,
  `AnswersMatchRequests` from one inductive invariant: types are not enough, a call about
  to store must hold an id nobody else has, and one about to cache the id of a stored row
  of its own hash. `RetiredIsFinal` is an action property over it: a step puts an id into a
  call or the cache only from the cache, an active row, another call or by allocating it.
  `BudgetIsKept` adds that what a call has packed so far fits, and rests on the
  arithmetic lemma `PackedTokensFit`. `OneActiveManifest`: of a hash that no two calls
  missed at once there is one active manifest, or one call that is compiling it, or neither.
  `InvalidationsAreFollowedUp` ties an invalidated row to the task that wrote it, over
  retries and redeliveries. `PackingKeepsOrder` follows the list of a call from expansion to
  the stored items: it has no node twice and begins with the nodes selected.
* **QueryServiceProofs** - `TypeCorrect`, `TextIsVerifiedOnce`, `StatusIsStored` and the
  refinement `ImplementsLifecycle`. The invariant ties the locals of each call and task to
  the rows of its answer: there is one Phase A row, every other is a verification newer
  than it, and what a worker is about to append was copied from the Phase A row. Every step
  maps to a step of `AnswerLifecycle` or a stutter; the update of the Phase A row and a
  second verification are invisible. `QueuedIsHandedOver` accounts for each message of an
  answer that was called queued; `VerifiedUnlessOverlap` counts the workers that may still
  append to an answer.
* **ReviewQueueProofs** - `TypeCorrect`; `AuditedItemsAreQueued`, whose invariant already
  holds at the step before the audit; `NodeDecisionsAreAudited`, whose invariant follows a
  decision through the locals that may still write it: the reviewer past its audit and the
  copy a scan has read. `CountsAreCovered`: the reports stored so far can be split up
  between items such that no item counts more than its part, and no reporter is about to
  write more than one above it; an upsert adds one to a part, and to `observed`.
  `CountsAreExact`: of a fact without a race one call at most is about to write, with the
  id of the one item there is and a count one above it, which is all that was stored.
  `ReviewsAreWhole`: an undisturbed node has one review under way at most, and the
  invariant (`InTurn`) says for each of its steps what is written: before the first the node
  is whole, then its item has the decision, then all the events are there. A report writes
  the review state back as it is, or disturbs the node, or inserts a pending row.
* **SnapshotIngestProofs** - `TypeCorrect`, with the node table finite so that node counts
  are numbers; `CompletedMeansWhole`, `EdgesJoinNodes` and `EventsAreWhole` from
  one invariant (`Whole`) that says what each call has committed at each of its
  steps, together with the lemma that tables only grow. `EventsAreWhole` also needs that a
  call makes exactly as many nodes as it read files (a bijection) besides the root.
  `SettledStaysFrozen` is an action property: a call that reads has found the snapshot
  PENDING, and a root stored late is there already. `IngestedOnce` rests on `OnceInv`: of
  a snapshot that is not repeated one call at most reads, the tables hold exactly what that
  call stored, each file once, and stay so after COMPLETED.
* **GovernanceScanProofs** - `TypeCorrect`: no value that decay or interpolation writes
  leaves the range, whatever the labels say. `DecayIsBounded`: an uncalibrated row, in the
  table, in the copy of a scan or in the hands of a reviewer, is above what the longest age
  seen leaves; it rests on the monotonicity of integer division. `CalibrationKeepsOrder`:
  the loop of `compute_pava` ends, its blocks then partition the sorted labels with means
  that ascend, so the points of the curve do, and interpolation between such points is
  monotone. `CurveIsRegression`: the running sums of the labels lie on or over the line
  through each block, pooling two blocks preserves that (`Chords`), and as the slopes of
  the final blocks ascend the running sums lie over the line of every block, extended to
  both sides (`GraphIsAbove`); hence the mean of a block is the min-max value at each
  of its places (`BlockIsFit`).
* **GatewayProofs** - `TypeCorrect`; `PolicyHolds` from the fact that every decision is the
  inline one or a combination with `policy.rego`, and a lemma by cases on the class and
  mode. `WindowIsRight` and `RetryAfterIsRight` share one invariant: a list holds only
  admitted requests of its bucket and all that are recent, so that the trimmed list is what
  counts now; a window that ends earlier is disturbed by no later admission.
  `RetryAfterIsRight` rests on lemmas about the truncation to seconds (`RetryAfterBounds`).
* **LibraryProofs** - the five parts of `Library` and their composition.
  * Graph: `GraphTypeCorrect`, with in-degrees that never fall below zero: each is the
    number of active edges from nodes not yet visited. `DirtyIsLeast`: what has been reached
    lies in every closed set with the changed node, and all but the queue is closed.
    `CyclesAreFound`: the nodes not visited at the end each have an edge from one of them,
    and no visited node is in such a set; together they are `GraphResults`. `UpstreamIsKept`
    adds that the edge given up is one of the candidates, of which a finite set has a
    weakest.
  * Verifier: `VerifierTypeCorrect`; `WinnerIsBest`: a trajectory's wins are the pairs
    judged that it won, so at the end one with the highest score has at least as many as
    any other, and one with a lower score fewer. `WinnerIsNearReward` compares the sums of
    scores with and without weights, criterion by criterion.
  * Retrieval: `RetrievalTypeCorrect`; `AnswersAreBased`. The invariant (`RetrievalInv`)
    says of every manifest that it is the packing of some nodes of one snapshot, selected
    and expanded as a call would do it, and of every call what its snapshot, its ranking
    and its selection are at its stage. A manifest found by its hash is then of the
    caller's snapshot, for hashes of different snapshots name different nodes; and the
    ranking leads with a relevant node because its terms outweigh the confidences.
  * PDF layout: `PdfTypeCorrect`; `PdfIsFiled`. Every file that was built occupies a tree
    in the shared list, whose parents are positions in that tree (`PdfTrees`), and the
    trees come in the order of the files (`PdfOrdered`); from the shape of a tree follow
    which pages a section has and that each page with text is filed.
  * Citations: `CitationTypeCorrect`; `ReportIsSettled`. The invariant says what the report
    and the list are at each stage. Reading the answer with its list behind it, the scan is
    at the end of the answer where it was without it; the heading, which is neither blank
    nor empty (`CitationsAssumption`), closes a source that is open there, and each row is
    closed by its own text (`RowIsClosed`), so the list begins a source of its own exactly
    where what it repeats of a citation says "Source:" (`RowsAreClosed`).
  * `LibraryTypeCorrect`: types of the composition, from those of the parts and
    `PartsRunAlone`, by which each part runs in it as it does on its own.
* **Induction** - the library's induction theorems take an operator and cannot be used
  here, so induction is on sets: the set of counterexamples, if it is not empty, has a least
  member in a well-founded order (`SubsetInduction` for finite sets). From that follow that
  a recursive function exists where its equation looks at arguments of smaller measure only
  (`RecursionIsDefined`, used for `compute_pava` and for sums), that a sum does not depend
  on the order of its terms (`SumWithout`), and what `Arranged` and `Picked` return
  (`ArrangedSorts`, `PickedKeepsOrder`).

Every invariant and every action property of a passing run has a theorem, and so does the
refinement. Five invariants are only proved: `AnswerIsForRequest`, `EdgesHaveNodes`,
`EventsCountWhole`, `WinnerNearReward` and `CountIsCovered`, the last of raced facts as
well. Only model-checked is liveness, which is out of the prover's reach:
`InvalidatedIsForgotten`, `QueuedIsVerified` and `SentIsIngested`. So are the agreement of
`Arrangement` with the operators on sequences (an `ASSUME`), since no proof rests on it,
and the properties of the four runs that are violated.

## 6. Not modelled

* The dead letter queue: `_push_to_dlq` and `_dlq_handler_task` have no caller, so no step
  of the system reaches it. What it should hold are the tasks in the three `gaveUp` sets.
* `financial_schema.py`, `typed_facts.py`, the financial boost terms of the router, prompt
  and provider of the model: regular expressions and text, without state; nothing but
  wording to be right or wrong about.
* The in-process `memory://` cache and Celery's eager mode: used in development, with one
  process and no interleaving beyond what the inline scheduler's branch has.
* Clock skew: `created_at` is read from one clock per answer. With a worker behind the API
  the verified row would never be the newest (`phase_b.py:38`).
* The growth of the limiter's table over hosts that went away (`rate_limit.py:33`), and the
  other columns a late report writes back, `risk_level` among them (`load_shedding.py:37`).
* Floating point: scores, confidences and decay are integers on a scale.
* SQL paging, export, templates, argument parsing of the CLI, settings.
* What a broker does beyond at-least-once delivery.

## 7. Plan

1. An abstract specification of ingestion (a snapshot is empty, then partly there, then
   whole and frozen), refined by `SnapshotIngest`; `Whole` is the invariant it needs.
2. The same for the review queue: a log of reports and decisions of which the queue and the
   nodes are a view that may lag, but never runs ahead.
3. One clock per host in `QueryService`, if the code comes to say what order of rows
   `get_answer` relies on.
4. The dead letter queue, once a task pushes to it.
