--------------------------- MODULE ContextCompiler ---------------------------
(***************************************************************************)
(* The compiled-context cache of the query path.  API threads run          *)
(* ContextCompiler.compile concurrently (the endpoints are synchronous, so *)
(* every request has a thread of its own); every call it makes to the      *)
(* database or to Redis is one atomic step and everything else interleaves *)
(* with it.  The worker task lattice_jit.cache.invalidate, delivered at    *)
(* least once and retried a bounded number of times, marks manifests       *)
(* invalidated and drops their cache key.                                  *)
(*                                                                         *)
(* A member of Queries stands for a query_hash: the tenant, the normalised *)
(* query text and the ids of the selected nodes.  Times are abstracted to  *)
(* the order in which manifests get their created_at: ids are allocated in *)
(* that order, so the newest manifest is the one with the largest id.      *)
(***************************************************************************)
EXTENDS Integers, Sequences, FiniteSets

CONSTANTS
    Queries,      \* query hashes
    Nodes,        \* knowledge nodes of the tenant
    Selected,     \* the nodes the router selected for each query, in order
    BelongsTo,    \* BELONGS_TO edges, pairs <<from, to>>
    Section,      \* the metadata "section" of each node, NoSection if empty
    NoSection,
    Chars,        \* length of body_text (or title) of each node
    CharBudget,   \* settings.context_item_char_budget
    Budgets,      \* values of max_tokens a policy bundle may carry
    Threads,      \* API threads
    Tasks,        \* invalidation messages sent to the worker
    MaxCompiles,  \* bound: calls of compile in a behaviour
    MaxRetries,   \* settings.celery_task_max_retries
    MaxCrashes    \* bound: workers lost in a behaviour

ASSUME NodesAssumption ==
    /\ IsFiniteSet(Nodes)
    /\ BelongsTo \subseteq Nodes \X Nodes
    /\ Chars \in [Nodes -> Nat]

ASSUME SelectedAssumption ==
    \A q \in Queries :
        /\ Selected[q] \in Seq(Nodes)
        /\ \A i, j \in 1..Len(Selected[q]) :
               Selected[q][i] = Selected[q][j] => i = j

ASSUME ValuesAssumption ==
    /\ Queries # {}
    /\ Budgets # {}
    /\ Budgets \subseteq Int
    /\ CharBudget \in Nat

ASSUME BoundsAssumption ==
    /\ MaxCompiles \in Nat
    /\ MaxRetries \in Nat
    /\ MaxCrashes \in Nat

Ids == Nat \ {0}
NoId == 0

VARIABLES
    manifests,  \* table compiled_context_manifests with its items, by id
    cache,      \* Redis keys manifest:<query_hash>, NoId when there is none
    nextId,     \* the manifest id (and created_at) the next build will get
    started,    \* calls of compile so far
    frame,      \* the locals of each thread's call of compile
    answer,     \* the manifest each thread's last call returned
    missed,     \* hashes that two calls at once have found no manifest for
    task,       \* the progress of each invalidation message
    target,     \* the manifest it names
    tries,      \* its retries so far
    audited,    \* manifests with a manifest_invalidated audit event
    crashes     \* workers lost so far

taskVars == <<task, target, tries, audited, crashes>>
vars == <<manifests, cache, nextId, started, frame, answer, missed, taskVars>>

(***************************************************************************)
(* Values.                                                                 *)
(***************************************************************************)
Item == [node : Nodes, tokens : Nat]

Manifest == [hash   : Queries,
             budget : Budgets,
             actual : Nat,
             items  : Seq(Item),
             status : {"active", "invalidated"}]

Steps == {"idle", "cacheGet", "cacheLoad", "find", "fillCache",
          "expand", "pack", "store", "setCache"}

Frame == [pc : Steps, req : Queries, budget : Budgets, mid : Ids \cup {NoId},
          expanded : Seq(Nodes), k : Nat \ {0}, items : Seq(Item), actual : Nat]

Call(step, q, b) ==
    [pc |-> step, req |-> q, budget |-> b, mid |-> NoId,
     expanded |-> <<>>, k |-> 1, items |-> <<>>, actual |-> 0]

\* Locals are meaningless between calls: one value for all of them.
NoCall == Call("idle", CHOOSE q \in Queries : TRUE, CHOOSE b \in Budgets : TRUE)

Answer == [id : Ids, req : Queries, status : {"active", "invalidated"}]
NoAnswer == [id |-> NoId]

TaskSteps == {"unsent", "queued", "committed", "deleted", "done", "failed"}

MinOf(a, b) == IF a < b THEN a ELSE b
MaxOf(a, b) == IF a > b THEN a ELSE b

(***************************************************************************)
(* Section expansion: the ends of the BELONGS_TO edges at a node are its   *)
(* parents (list_edges_for_nodes returns edges in both directions, so a    *)
(* node with children is a parent too), and the nodes below a parent that  *)
(* carry the same section and were not seen before are added.              *)
(***************************************************************************)
Parents(n) == {e[2] : e \in {f \in BelongsTo : n \in {f[1], f[2]}}}

Elements(s) == {s[i] : i \in 1..Len(s)}

\* Mutant of SectionSiblings: forgets seen_ids.
SiblingsSeenOrNot(n, seen) ==
    {s \in {e[1] : e \in {f \in BelongsTo : f[2] \in Parents(n)}} :
        Section[n] # NoSection /\ s # n /\ Section[s] = Section[n]}

SectionSiblings(n, seen) ==
    IF Section[n] = NoSection
    THEN {}
    ELSE {s \in {e[1] : e \in {f \in BelongsTo : f[2] \in Parents(n)}} :
              s \notin seen /\ Section[s] = Section[n]}

\* The id set of the siblings is a Python set: its order is not defined.
Orderings(S) ==
    {s \in [1..Cardinality(S) -> S] :
        \A i, j \in 1..Cardinality(S) : s[i] = s[j] => i = j}

(***************************************************************************)
(* Packing one node: the snippet is cut to the character budget, and cut   *)
(* again to four characters per remaining token when it does not fit.      *)
(***************************************************************************)
TokenCount(chars) == MaxOf(1, chars \div 4)

\* Mutant of PackedTokens: the last snippet is not cut to what remains.
UncutTokens(n, remaining) == TokenCount(MinOf(Chars[n], CharBudget))

PackedTokens(n, remaining) ==
    LET snippet == MinOf(Chars[n], CharBudget)
    IN  IF TokenCount(snippet) > remaining
        THEN TokenCount(MinOf(snippet, MaxOf(4, remaining * 4)))
        ELSE TokenCount(snippet)

-----------------------------------------------------------------------------
Init ==
    /\ manifests = [i \in {} |-> {}]
    /\ cache = [q \in Queries |-> NoId]
    /\ nextId = 1
    /\ started = 0
    /\ frame = [t \in Threads |-> NoCall]
    /\ answer = [t \in Threads |-> NoAnswer]
    /\ missed = {}
    /\ task = [j \in Tasks |-> "unsent"]
    /\ target = [j \in Tasks |-> NoId]
    /\ tries = [j \in Tasks |-> 0]
    /\ audited = {}
    /\ crashes = 0

(***************************************************************************)
(* ContextCompiler.compile.                                                *)
(***************************************************************************)
At(t, step) == frame[t].pc = step

\* The caller computed the query hash and holds its freshly evaluated bundle.
StartCompile(t, q, b) ==
    /\ At(t, "idle")
    /\ started < MaxCompiles
    /\ started' = started + 1
    /\ frame' = [frame EXCEPT ![t] = Call("cacheGet", q, b)]
    /\ answer' = [answer EXCEPT ![t] = NoAnswer]
    /\ UNCHANGED <<manifests, cache, nextId, missed, taskVars>>

\* return m, whose status column was read as s.
Return(t, m, s) ==
    /\ frame' = [frame EXCEPT ![t] = NoCall]
    /\ answer' = [answer EXCEPT ![t] =
           [id |-> m, req |-> frame[t].req, status |-> s]]

\* cache_store.get_json(cache_key)
CacheGet(t) ==
    LET hit == cache[frame[t].req]
    IN  /\ At(t, "cacheGet")
        /\ frame' = [frame EXCEPT ![t] =
               [@ EXCEPT !.pc = IF hit = NoId THEN "find" ELSE "cacheLoad",
                         !.mid = hit]]
        /\ UNCHANGED <<manifests, cache, nextId, started, answer, missed, taskVars>>

\* repository.get_manifest(id) looks the row up by its key, whatever its status.
CacheLoad(t) ==
    /\ At(t, "cacheLoad")
    /\ IF frame[t].mid \in DOMAIN manifests
       THEN Return(t, frame[t].mid, manifests[frame[t].mid].status)
       ELSE /\ frame' = [frame EXCEPT ![t] = [@ EXCEPT !.pc = "find"]]
            /\ UNCHANGED answer
    /\ UNCHANGED <<manifests, cache, nextId, started, missed, taskVars>>

\* Mutant of ActiveFor: the lookup forgets the status.
StoredFor(q) == {i \in DOMAIN manifests : manifests[i].hash = q}

ActiveFor(q) ==
    {i \in DOMAIN manifests :
        manifests[i].hash = q /\ manifests[i].status = "active"}

\* repository.find_manifest_by_query_hash: the newest active one.
FindPersisted(t) ==
    /\ At(t, "find")
    /\ \E i \in ActiveFor(frame[t].req) :
           /\ \A j \in ActiveFor(frame[t].req) : j <= i
           /\ frame' = [frame EXCEPT ![t] =
                  [@ EXCEPT !.pc = "fillCache", !.mid = i]]
    /\ UNCHANGED <<manifests, cache, nextId, started, answer, missed, taskVars>>

\* Has found no manifest for q and not yet stored its own.
Compiling(t, q) ==
    frame[t].req = q /\ frame[t].pc \in {"expand", "pack", "store"}

\* Mutant of FindNothing: what is stored is not asked for.
CompileAnyway(t) ==
    /\ At(t, "find")
    /\ frame' = [frame EXCEPT ![t] =
           [@ EXCEPT !.pc = "expand", !.expanded = Selected[frame[t].req]]]
    /\ missed' = missed \cup
           {q \in {frame[t].req} : \E u \in Threads : Compiling(u, q)}
    /\ UNCHANGED <<manifests, cache, nextId, started, answer, taskVars>>

FindNothing(t) ==
    /\ At(t, "find")
    /\ ActiveFor(frame[t].req) = {}
    /\ frame' = [frame EXCEPT ![t] =
           [@ EXCEPT !.pc = "expand", !.expanded = Selected[frame[t].req]]]
    /\ missed' = missed \cup
           {q \in {frame[t].req} : \E u \in Threads : Compiling(u, q)}
    /\ UNCHANGED <<manifests, cache, nextId, started, answer, taskVars>>

\* cache_store.set_json; then return the manifest object in hand, which was
\* active when it was read or built.
CacheSet(t) ==
    /\ frame[t].pc \in {"fillCache", "setCache"}
    /\ cache' = [cache EXCEPT ![frame[t].req] = frame[t].mid]
    /\ Return(t, frame[t].mid, "active")
    /\ UNCHANGED <<manifests, nextId, started, missed, taskVars>>

\* One selected node of the section expansion; an exception adds nothing.
ExpandNode(t) ==
    /\ At(t, "expand")
    /\ frame[t].k <= Len(Selected[frame[t].req])
    /\ \E found \in {{}, SectionSiblings(Selected[frame[t].req][frame[t].k],
                                          Elements(frame[t].expanded))} :
       \E siblings \in Orderings(found) :
           frame' = [frame EXCEPT ![t] =
               [@ EXCEPT !.expanded = frame[t].expanded \o siblings,
                         !.k = frame[t].k + 1]]
    /\ UNCHANGED <<manifests, cache, nextId, started, answer, missed, taskVars>>

ExpandDone(t) ==
    /\ At(t, "expand")
    /\ frame[t].k > Len(Selected[frame[t].req])
    /\ frame' = [frame EXCEPT ![t] = [@ EXCEPT !.pc = "pack", !.k = 1]]
    /\ UNCHANGED <<manifests, cache, nextId, started, answer, missed, taskVars>>

Remaining(t) == frame[t].budget - frame[t].actual

\* One iteration of the packing loop.
PackNode(t) ==
    /\ At(t, "pack")
    /\ frame[t].k <= Len(frame[t].expanded)
    /\ Remaining(t) > 0
    /\ LET n == frame[t].expanded[frame[t].k]
           tokens == PackedTokens(n, Remaining(t))
       IN  frame' = [frame EXCEPT ![t] =
               [@ EXCEPT !.items = Append(frame[t].items, [node |-> n, tokens |-> tokens]),
                         !.actual = frame[t].actual + tokens,
                         !.k = frame[t].k + 1]]
    /\ UNCHANGED <<manifests, cache, nextId, started, answer, missed, taskVars>>

\* Mutant of PackDone: the key is set without waiting for store_manifest.
CacheBeforeStore(t) ==
    /\ At(t, "pack")
    /\ frame[t].k > Len(frame[t].expanded) \/ Remaining(t) <= 0
    /\ frame' = [frame EXCEPT ![t] = [@ EXCEPT !.pc = "setCache", !.mid = nextId]]
    /\ nextId' = nextId + 1
    /\ UNCHANGED <<manifests, cache, started, answer, missed, taskVars>>

\* The loop ends or breaks; the manifest gets its id and created_at.
PackDone(t) ==
    /\ At(t, "pack")
    /\ \/ frame[t].k > Len(frame[t].expanded)
       \/ Remaining(t) <= 0
    /\ frame' = [frame EXCEPT ![t] = [@ EXCEPT !.pc = "store", !.mid = nextId]]
    /\ nextId' = nextId + 1
    /\ UNCHANGED <<manifests, cache, started, answer, missed, taskVars>>

Built(t) == [hash |-> frame[t].req, budget |-> frame[t].budget,
             actual |-> frame[t].actual, items |-> frame[t].items,
             status |-> "active"]

\* repository.store_manifest: the row and its items in one transaction.
StoreManifest(t) ==
    /\ At(t, "store")
    /\ manifests' = [i \in DOMAIN manifests \cup {frame[t].mid} |->
           IF i = frame[t].mid THEN Built(t) ELSE manifests[i]]
    /\ frame' = [frame EXCEPT ![t] = [@ EXCEPT !.pc = "setCache"]]
    /\ UNCHANGED <<cache, nextId, started, answer, missed, taskVars>>

\* A call to the database or to Redis raises, or the API process dies.
CompileFails(t) ==
    /\ frame[t].pc \in {"cacheGet", "cacheLoad", "find", "fillCache", "store", "setCache"}
    /\ frame' = [frame EXCEPT ![t] = NoCall]
    /\ UNCHANGED <<manifests, cache, nextId, started, answer, missed, taskVars>>

\* Mutant of Expire: set_json forgets the TTL, so keys stay.
NoTtl(q) == cache[q] # NoId /\ FALSE /\ UNCHANGED vars

\* Redis drops the key when its TTL has run out.
Expire(q) ==
    /\ cache[q] # NoId
    /\ cache' = [cache EXCEPT ![q] = NoId]
    /\ UNCHANGED <<manifests, nextId, started, frame, answer, missed, taskVars>>

(***************************************************************************)
(* The worker task lattice_jit.cache.invalidate.                           *)
(***************************************************************************)
otherThanTasks == <<nextId, started, frame, answer, missed>>

\* The message may name a manifest that does not exist (NoId).
SendInvalidation(j, i) ==
    /\ task[j] = "unsent"
    /\ task' = [task EXCEPT ![j] = "queued"]
    /\ target' = [target EXCEPT ![j] = i]
    /\ UNCHANGED <<manifests, cache, tries, audited, crashes, otherThanTasks>>

InvalidateRow(j) ==
    /\ task[j] = "queued"
    /\ target[j] \in DOMAIN manifests
    /\ manifests' = [manifests EXCEPT ![target[j]].status = "invalidated"]
    /\ task' = [task EXCEPT ![j] = "committed"]
    /\ UNCHANGED <<cache, target, tries, audited, crashes, otherThanTasks>>

\* Mutant of InvalidateMissing: an already invalidated manifest is taken for done.
SkipIfInvalidated(j) ==
    /\ task[j] = "queued"
    /\ target[j] \in DOMAIN manifests => manifests[target[j]].status = "invalidated"
    /\ task' = [task EXCEPT ![j] = "done"]
    /\ UNCHANGED <<manifests, cache, target, tries, audited, crashes, otherThanTasks>>

InvalidateMissing(j) ==
    /\ task[j] = "queued"
    /\ target[j] \notin DOMAIN manifests
    /\ task' = [task EXCEPT ![j] = "done"]
    /\ UNCHANGED <<manifests, cache, target, tries, audited, crashes, otherThanTasks>>

DeleteKey(j) ==
    /\ task[j] = "committed"
    /\ cache' = [cache EXCEPT ![manifests[target[j]].hash] = NoId]
    /\ task' = [task EXCEPT ![j] = "deleted"]
    /\ UNCHANGED <<manifests, target, tries, audited, crashes, otherThanTasks>>

AuditInvalidation(j) ==
    /\ task[j] = "deleted"
    /\ audited' = audited \cup {target[j]}
    /\ task' = [task EXCEPT ![j] = "done"]
    /\ UNCHANGED <<manifests, cache, target, tries, crashes, otherThanTasks>>

Running(j) == task[j] \in {"queued", "committed", "deleted"}

\* Mutant of TaskRaises: one retry too many.
RetryOnceMore(j) ==
    /\ Running(j)
    /\ tries[j] <= MaxRetries
    /\ task' = [task EXCEPT ![j] = "queued"]
    /\ tries' = [tries EXCEPT ![j] = @ + 1]
    /\ UNCHANGED <<manifests, cache, target, audited, crashes, otherThanTasks>>

\* autoretry_for=(Exception,): the whole task again, until max_retries is used up.
TaskRaises(j) ==
    /\ Running(j)
    /\ IF tries[j] < MaxRetries
       THEN /\ task' = [task EXCEPT ![j] = "queued"]
            /\ tries' = [tries EXCEPT ![j] = @ + 1]
       ELSE /\ task' = [task EXCEPT ![j] = "failed"]
            /\ UNCHANGED tries
    /\ UNCHANGED <<manifests, cache, target, audited, crashes, otherThanTasks>>

\* acks_late, reject_on_worker_lost: the message is delivered again.
WorkerLost(j) ==
    /\ task[j] \in {"committed", "deleted"}
    /\ crashes < MaxCrashes
    /\ crashes' = crashes + 1
    /\ task' = [task EXCEPT ![j] = "queued"]
    /\ UNCHANGED <<manifests, cache, target, tries, audited, otherThanTasks>>

-----------------------------------------------------------------------------
CompileStep(t) ==
    \/ CacheGet(t) \/ CacheLoad(t) \/ FindPersisted(t) \/ FindNothing(t)
    \/ CacheSet(t) \/ ExpandNode(t) \/ ExpandDone(t)
    \/ PackNode(t) \/ PackDone(t) \/ StoreManifest(t)

TaskStep(j) ==
    \/ InvalidateRow(j) \/ InvalidateMissing(j)
    \/ DeleteKey(j) \/ AuditInvalidation(j)

Next ==
    \/ \E t \in Threads :
           \/ \E q \in Queries, b \in Budgets : StartCompile(t, q, b)
           \/ CompileStep(t)
           \/ CompileFails(t)
    \/ \E q \in Queries : Expire(q)
    \/ \E j \in Tasks :
           \/ \E i \in DOMAIN manifests \cup {NoId} : SendInvalidation(j, i)
           \/ TaskStep(j)
           \/ TaskRaises(j)
           \/ WorkerLost(j)

Spec == Init /\ [][Next]_vars

\* A thread in a call goes on, the worker takes up what is queued, and Redis
\* expires what is cached.  Nobody is obliged to call, to send or to fail.
FairSpec ==
    /\ Spec
    /\ \A t \in Threads : WF_vars(CompileStep(t))
    /\ \A j \in Tasks : WF_vars(TaskStep(j))
    /\ \A q \in Queries : WF_vars(Expire(q))

-----------------------------------------------------------------------------
(***************************************************************************)
(* Properties.                                                             *)
(***************************************************************************)
Distinct(s) == \A i, j \in 1..Len(s) : s[i] = s[j] => i = j

\* Every variable keeps the shape the code gives it.
TypeOK ==
    /\ DOMAIN manifests \subseteq Ids
    /\ manifests \in [DOMAIN manifests -> Manifest]
    /\ cache \in [Queries -> Ids \cup {NoId}]
    /\ started \in 0..MaxCompiles
    /\ nextId \in Ids
    /\ frame \in [Threads -> Frame]
    /\ answer \in [Threads -> Answer \cup {NoAnswer}]
    /\ missed \subseteq Queries
    /\ task \in [Tasks -> TaskSteps]
    /\ target \in [Tasks -> Ids \cup {NoId}]
    /\ tries \in [Tasks -> 0..MaxRetries]
    /\ audited \subseteq Ids
    /\ crashes \in 0..MaxCrashes

\* A cache key never points at a manifest that is not in the database or that
\* was compiled for another query hash: whatever the interleaving of hits,
\* misses, failures and expiries, compile stores the row before it sets the key.
CacheRefersToStored ==
    \A q \in Queries :
        cache[q] # NoId => /\ cache[q] \in DOMAIN manifests
                           /\ manifests[cache[q]].hash = q

Answered(t) == answer[t].id # NoId

\* compile answers a call with a stored manifest of the hash it was called with,
\* on each of its three return paths.
AnswerIsForRequest ==
    \A t \in Threads :
        Answered(t) => /\ answer[t].id \in DOMAIN manifests
                       /\ manifests[answer[t].id].hash = answer[t].req

\* A hash has one active manifest at most, however compile, its failures and the
\* invalidations interleave.  Only calls that overlap between asking for a manifest
\* (compiler.py:41) and storing their own leave more: a call that comes later finds
\* what is there, and none compiles beside it.
OneActiveUnlessOverlap ==
    \A q \in Queries \ missed :
        /\ Cardinality(ActiveFor(q)) <= 1
        /\ \A t \in Threads : Compiling(t, q) => ActiveFor(q) = {}

\* The packing loop never goes over the token budget the manifest records, even
\* when the last snippet has to be cut or the budget is zero or negative.
FitsBudget(m) == m.actual <= MaxOf(m.budget, 0)
ManifestsFitBudget == \A i \in DOMAIN manifests : FitsBudget(manifests[i])

\* Section expansion (compiler.py:64) keeps what the router chose: a sibling is
\* packed only after all selected nodes, and no node is packed a second time,
\* whether it was selected or is a sibling of several selected nodes.
PackedOnceSelectedFirst ==
    \A i \in DOMAIN manifests :
        LET its == manifests[i].items
            sel == Selected[manifests[i].hash]
        IN  /\ \A a, b \in 1..Len(its) : its[a].node = its[b].node => a = b
            /\ \A a \in 1..MinOf(Len(its), Len(sel)) : its[a].node = sel[a]

\* An invalidated manifest is still on its way to the audit log, in it, or its
\* task ran out of retries: a redelivery after a lost worker finishes the job.
InvalidationIsFollowedUp ==
    \A i \in DOMAIN manifests :
        manifests[i].status = "invalidated" =>
            \/ i \in audited
            \/ \E j \in Tasks : target[j] = i /\ (Running(j) \/ task[j] = "failed")

\* An invalidated manifest that no key points at and no call in flight holds.
InFlight(i) == \E t \in Threads : frame[t].pc # "idle" /\ frame[t].mid = i
Retired(i) ==
    /\ i \in DOMAIN manifests
    /\ manifests[i].status = "invalidated"
    /\ \A q \in Queries : cache[q] # i
    /\ ~InFlight(i)

\* Such a manifest is gone for good: no call can find, cache or return it again,
\* because find_manifest_by_query_hash asks for active rows only.
RetiredStaysRetired ==
    [][\A i \in DOMAIN manifests : Retired(i) => Retired(i)']_vars

\* An invalidated manifest leaves the cache for ever, even if the task that
\* should have dropped its key failed or a stale call put it back: the TTL does.
Cached(i) == \E q \in Queries : cache[q] = i
IsInvalidated(i) == i \in DOMAIN manifests /\ manifests[i].status = "invalidated"
InvalidatedIsForgotten ==
    \A i \in 1..MaxCompiles : IsInvalidated(i) ~> [](~Cached(i))

\* What tests/unit/test_context_compiler.py:40 asserts of the manifest compile
\* returns: it is active.  Allowed for are an invalidation that has not yet
\* dropped the key, or never could, and a call that had read the key before it
\* was dropped.
ServedIsActive ==
    [][\A t \in Threads :
          answer'[t] # answer[t] /\ answer'[t].id # NoId =>
              \/ answer'[t].status = "active"
              \/ cache[answer'[t].req] # answer'[t].id
              \/ \E j \in Tasks :
                     /\ target[j] = answer'[t].id
                     /\ task[j] \in {"queued", "committed", "failed"}]_vars
=============================================================================
