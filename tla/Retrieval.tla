------------------------------ MODULE Retrieval -----------------------------
(***************************************************************************)
(* What an answer is based on: QueryService.run up to the provenance of    *)
(* its answer, while snapshots are being ingested.  A query picks a        *)
(* snapshot, lists its nodes, ranks them (baseline or hybrid router),      *)
(* compiles a manifest or reuses the one stored under its hash, and reads  *)
(* the nodes the manifest names.  Queries run in the threads of one        *)
(* process and share the router and its embedding service; a step is one   *)
(* transaction, or what is done between two.                               *)
(*                                                                         *)
(* The store of manifests is ContextCompiler's, here without its cache and *)
(* with a budget counted in nodes; the ingestion is SnapshotIngest's, here *)
(* as the order of its commits.                                            *)
(***************************************************************************)
EXTENDS Integers, FiniteSets, SequencesExt, FiniteSetsExt, Arrangement

CONSTANTS
    Readers,      \* threads that answer queries
    Nodes,        \* the nodes of all snapshots
    CreatedAt,    \* their order in created_at
    Home,         \* the snapshot of a node; snapshots are numbered as they are created
    Roots,        \* nodes of type source
    Parent,       \* where the BELONGS_TO edge of a node leads
    Chapter,      \* metadata "section" of a node, or NoChapter
    NoChapter,
    Body,         \* title, text and source_uri of a node, as the ranking sees them
    Asked,        \* the terms of a question and the known company it names, if one
    Measure,      \* a common multiple of the lengths of the texts
    IdfPercent,   \* [N][count]: 100 * (log((N + 1) / (count + 1)) + 1)
    Lexical,      \* 100 * _semantic_similarity of a question and a node
    Near,         \* 100 * cosine similarity of their embeddings, at least 0
    Serving,      \* 100 * serving_confidence of a node
    Inquiries,    \* the requests considered
    MaxNodes,     \* router_max_nodes
    Budget,       \* nodes that fit the token budget
    NumSnapshots,
    MaxInquiries  \* bound on the requests made

Questions == DOMAIN Asked
Snapshots == 1..NumSnapshots
Inquiry == [question : Questions, snapshot : 0..NumSnapshots, wanted : SUBSET Nodes]

ASSUME RetrievalAssumption ==
    /\ NumSnapshots \in Nat /\ MaxInquiries \in Nat
    /\ MaxNodes \in Nat \ {0} /\ Budget \in Nat \ {0}
    /\ Inquiries \subseteq Inquiry

\* What is stored: every snapshot has a root, and an edge stays in its snapshot.
ASSUME NodesAssumption ==
    /\ IsFiniteSet(Nodes)
    /\ CreatedAt \in [Nodes -> Nat] /\ IsInjective(CreatedAt)
    /\ Home \in [Nodes -> Snapshots]
    /\ Roots \subseteq Nodes /\ \A s \in Snapshots : \E n \in Roots : Home[n] = s
    /\ DOMAIN Chapter = Nodes
    /\ DOMAIN Parent \subseteq Nodes
    /\ \A n \in DOMAIN Parent : Parent[n] \in Nodes /\ Home[Parent[n]] = Home[n]

\* What the ranking sees.  A similarity is at most 1, and so is a confidence: it starts
\* there and governance only lowers or clamps it.  The logarithm is not negative.
ASSUME RankingAssumption ==
    /\ Measure \in Nat \ {0}
    /\ \A n \in Nodes :
          /\ Body[n].length \in Nat \ {0} /\ Measure % Body[n].length = 0
          /\ Body[n].titled \subseteq Body[n].mentioned
          /\ \A q \in Questions : \A t \in Asked[q].terms : Body[n].occurs[t] \in Nat
    /\ \A q \in Questions : IsFiniteSet(Asked[q].terms)
    /\ \A all \in 1..Cardinality(Nodes) : \A having \in 1..all :
          IdfPercent[all][having] \in Nat /\ IdfPercent[all][having] >= 100
    /\ \A q \in Questions : Lexical[q] \in [Nodes -> 0..100] /\ Near[q] \in [Nodes -> 0..100]
    /\ Serving \in [Nodes -> 0..100]

VARIABLES
    progress,   \* commits of the ingestion of each snapshot
    manifests,  \* manifests stored, by hash
    router,     \* router_mode
    enabled,    \* EmbeddingService.enabled
    loaded,     \* its model is there
    reading,    \* the call of each reader
    inquired    \* requests made

retrievalVars == <<progress, manifests, router, enabled, loaded, reading, inquired>>

Free == [stage |-> "free", request |-> [question |-> "", snapshot |-> 0, wanted |-> {}],
         snapshot |-> 0, found |-> {}, similarity |-> "none", selected |-> <<>>,
         expanded |-> <<>>, next |-> 1, joined |-> FALSE, items |-> <<>>, cited |-> <<>>]

RetrievalInit ==
    /\ progress = [s \in Snapshots |-> 0]
    /\ manifests = {}
    /\ router \in {"baseline", "hybrid"}
    /\ enabled \in BOOLEAN
    /\ loaded = FALSE
    /\ reading = [r \in Readers |-> Free]
    /\ inquired = 0

(***************************************************************************)
(* The commits of an ingestion, in order: the record, the root, the nodes, *)
(* the edges.  The status comes last, and no query looks at it.            *)
(***************************************************************************)
Created(s) == progress[s] >= 1
Stored(n) == progress[Home[n]] >= IF n \in Roots THEN 2 ELSE 3
Joined(s) == progress[s] >= 4

Commit(s) ==
    /\ progress[s] < 4
    /\ s > 1 => Created(s - 1)
    /\ progress' = [progress EXCEPT ![s] = @ + 1]
    /\ UNCHANGED <<manifests, router, enabled, loaded, reading, inquired>>

(***************************************************************************)
(* rank_nodes_for_query.                                                   *)
(***************************************************************************)
AsksAbout(q, companies) == Asked[q].company \cap companies # {}

\* Only the company's own nodes, if the question names a company that has some.
Considered(q, S) ==
    LET own == {n \in S : AsksAbout(q, Body[n].titled)}
    IN  IF own = {} THEN S ELSE own

\* Scores are in units of a hundredth of Measure.
Idf(t, S) == IdfPercent[Cardinality(S)][Cardinality({n \in S : Body[n].occurs[t] > 0})]
TfIdf(q, n, S) ==
    SumFunctionOnSet(
        [t \in Asked[q].terms |->
            IF Body[n].occurs[t] > 0
            THEN Body[n].occurs[t] * (Measure \div Body[n].length) * Idf(t, S) ELSE 0],
        Asked[q].terms)
Boost(q, n) == IF AsksAbout(q, Body[n].mentioned) THEN 30 * Measure ELSE 0

\* Scores of the nodes of a snapshot; one that is not ranked scores 0.
Baseline(q, S) ==
    LET among == Considered(q, S)
    IN  [n \in S |-> IF n \in among THEN TfIdf(q, n, among) + Boost(q, n) ELSE 0]
Ranked(q, S) == {n \in Considered(q, S) : Baseline(q, S)[n] > 0 \/ n \in Roots}

\* A stable sort of what the repository lists by created_at, highest score first.
Ahead(score, m, n) ==
    score[m] > score[n] \/ (score[m] = score[n] /\ CreatedAt[m] < CreatedAt[n])
ByScore(S, score) == Arranged(S, {p \in S \X S : Ahead(score, p[1], p[2])})
ByAge(S) == ByScore(S, [n \in S |-> 0])

(***************************************************************************)
(* The routers.                                                            *)
(***************************************************************************)
Cut(list, k) == SubSeq(list, 1, IF k < Len(list) THEN k ELSE Len(list))

BaselineSelect(q, S) ==
    Cut(IF Ranked(q, S) = {} THEN ByAge(S) ELSE ByScore(Ranked(q, S), Baseline(q, S)), MaxNodes)

Similar(kind, q, n) ==
    CASE kind = "lexical" -> Lexical[q][n]
      [] kind = "near" -> Near[q][n]
      [] OTHER -> 0

HybridScore(kind, q, S) ==
    LET base == Baseline(q, S)
        top == Max({0} \cup {base[n] : n \in S})
        share(n) == IF top > 0 THEN (100 * base[n]) \div top ELSE 0
    IN  [n \in S |-> 65 * Similar(kind, q, n) + 25 * share(n) + 10 * Serving[n]]

\* Every node of the snapshot takes part, whatever company the question names.
Eligible(kind, q, S) ==
    {n \in S : Similar(kind, q, n) > 0 \/ Baseline(q, S)[n] > 0 \/ n \in Roots}
HybridSelect(kind, q, S) ==
    IF Eligible(kind, q, S) = {} THEN BaselineSelect(q, S)
    ELSE Cut(ByScore(Eligible(kind, q, S), HybridScore(kind, q, S)), MaxNodes)

(***************************************************************************)
(* QueryService.run.                                                       *)
(***************************************************************************)
\* get_source_snapshot or get_latest_snapshot, whatever the snapshot's status.  A
\* snapshot that is not there is NotFoundError.
Inquire(r, i) ==
    LET chosen == IF i.snapshot # 0 THEN i.snapshot
                  ELSE Max({0} \cup {s \in Snapshots : Created(s)})
    IN  /\ reading[r].stage \in {"free", "answered"}
        /\ inquired < MaxInquiries
        /\ inquired' = inquired + 1
        /\ reading' = IF chosen # 0 /\ Created(chosen)
                      THEN [reading EXCEPT ![r] = [Free EXCEPT !.stage = "list", !.request = i,
                                                               !.snapshot = chosen]]
                      ELSE [reading EXCEPT ![r] = Free]
        /\ UNCHANGED <<progress, manifests, router, enabled, loaded>>

\* list_snapshot_nodes.
ListNodes(r) ==
    /\ reading[r].stage = "list"
    /\ reading' = [reading EXCEPT
           ![r].stage = "route",
           ![r].found = {n \in Nodes : Home[n] = reading[r].snapshot /\ Stored(n)}]
    /\ UNCHANGED <<progress, manifests, router, enabled, loaded, inquired>>

Selected(r, kind, list) ==
    [reading[r] EXCEPT !.stage = "find", !.similarity = kind, !.selected = list]
Hybrid(r, kind) ==
    Selected(r, kind, HybridSelect(kind, reading[r].request.question, reading[r].found))

\* SemanticRouter.select: the nodes asked for, if some are in the snapshot; else the
\* router of the mode.  The hybrid one looks at enabled here and goes on to encode.
Route(r) ==
    LET f == reading[r]
        wanted == f.found \cap f.request.wanted
    IN  /\ f.stage = "route"
        /\ reading' = [reading EXCEPT ![r] =
               CASE wanted # {} -> Selected(r, "none", Cut(ByAge(wanted), MaxNodes))
                 [] wanted = {} /\ router = "baseline" ->
                        Selected(r, "none", BaselineSelect(f.request.question, f.found))
                 [] wanted = {} /\ router = "hybrid" /\ ~enabled -> Hybrid(r, "lexical")
                 [] OTHER -> [f EXCEPT !.stage = "encode"]]
        /\ UNCHANGED <<progress, manifests, router, enabled, loaded, inquired>>

\* EmbeddingService.encode: another call may have given up on the model since, and
\* then every vector is [0.0] and no node is similar.
Encode(r) ==
    /\ reading[r].stage = "encode"
    /\ reading' = [reading EXCEPT ![r] = CASE ~enabled -> Hybrid(r, "zero")
                                           [] enabled /\ loaded -> Hybrid(r, "near")
                                           [] OTHER -> [@ EXCEPT !.stage = "load"]]
    /\ UNCHANGED <<progress, manifests, router, enabled, loaded, inquired>>

LoadModel(r) ==
    /\ reading[r].stage = "load"
    /\ \/ /\ loaded' = TRUE
          /\ reading' = [reading EXCEPT ![r] = Hybrid(r, "near")]
          /\ UNCHANGED enabled
       \/ /\ enabled' = FALSE
          /\ reading' = [reading EXCEPT ![r] = Hybrid(r, "zero")]
          /\ UNCHANGED loaded
    /\ UNCHANGED <<progress, manifests, router, inquired>>

\* Mutant of Hash: without the nodes.
HashOfText(question, selected) == <<question, <<>>>>

\* query_hash: the text and the nodes selected, neither snapshot nor router.
Hash(question, selected) == <<question, selected>>

\* A manifest stored under the hash is used as it is.
Find(r) ==
    LET f == reading[r]
        same == {m \in manifests : m.hash = Hash(f.request.question, f.selected)}
    IN  /\ f.stage = "find"
        /\ \/ \E m \in same :
                 reading' = [reading EXCEPT ![r].stage = "evidence", ![r].items = m.items,
                                            ![r].joined = m.joined]
           \/ /\ same = {}
              /\ reading' = [reading EXCEPT ![r].stage = "expand", ![r].expanded = f.selected,
                                            ![r].joined = Joined(f.snapshot)]
        /\ UNCHANGED <<progress, manifests, router, enabled, loaded, inquired>>

Siblings(n) ==
    IF Chapter[n] = NoChapter \/ ~Joined(Home[n]) \/ n \notin DOMAIN Parent THEN {}
    ELSE {m \in DOMAIN Parent : Parent[m] = Parent[n] /\ Chapter[m] = Chapter[n]}

\* One node selected: the rest of its section goes after what is there, in the order of
\* a Python set (here any one order).
Expand(r) ==
    LET f == reading[r] IN
    /\ f.stage = "expand"
    /\ f.next <= Len(f.selected)
    /\ reading' = [reading EXCEPT
           ![r].next = f.next + 1,
           ![r].expanded =
               f.expanded \o SetToSeq(Siblings(f.selected[f.next]) \ ToSet(f.expanded))]
    /\ UNCHANGED <<progress, manifests, router, enabled, loaded, inquired>>

\* What fits the budget is packed and stored.
Pack(r) ==
    LET f == reading[r]
        items == Cut(f.expanded, Budget)
    IN  /\ f.stage = "expand"
        /\ f.next > Len(f.selected)
        /\ manifests' = manifests \cup {[hash |-> Hash(f.request.question, f.selected),
                                         items |-> items, joined |-> f.joined]}
        /\ reading' = [reading EXCEPT ![r].stage = "evidence", ![r].items = items,
                                     ![r].expanded = <<>>, ![r].next = 1]
        /\ UNCHANGED <<progress, router, enabled, loaded, inquired>>

\* get_nodes_by_ids and build_provenance: an item whose node is not there is left out.
BuildProvenance(r) ==
    /\ reading[r].stage = "evidence"
    /\ reading' = [reading EXCEPT ![r].stage = "answered",
                                  ![r].cited = LET items == reading[r].items
                                                IN  Picked(items, {i \in DOMAIN items : Stored(items[i])})]
    /\ UNCHANGED <<progress, manifests, router, enabled, loaded, inquired>>

RetrievalNext ==
    \/ \E s \in Snapshots : Commit(s)
    \/ \E r \in Readers :
          \/ \E i \in Inquiries : Inquire(r, i)
          \/ ListNodes(r) \/ Route(r) \/ Encode(r) \/ LoadModel(r) \/ Find(r) \/ Expand(r)
          \/ Pack(r) \/ BuildProvenance(r)

RetrievalSpec == RetrievalInit /\ [][RetrievalNext]_retrievalVars

(***************************************************************************)
(* Properties.                                                             *)
(***************************************************************************)

\* Types: no more nodes are selected and packed than allowed.
RetrievalTypeOK ==
    /\ progress \in [Snapshots -> 0..4]
    /\ loaded => router = "hybrid"
    /\ inquired \in 0..MaxInquiries
    /\ \A r \in Readers : LET f == reading[r] IN
          /\ f.stage # "free" => f.request \in Inquiries /\ f.snapshot \in Snapshots
          /\ f.selected \in Seq(Nodes) /\ Len(f.selected) <= MaxNodes
          /\ f.items \in Seq(Nodes) /\ Len(f.items) <= Budget
          /\ IsInjective(f.expanded)

\* A node that the question's words or its company lead to, or one that is similar.
LedTo(q, n) ==
    \/ \E t \in Asked[q].terms : Body[n].occurs[t] > 0
    \/ AsksAbout(q, Body[n].mentioned)
Relevant(f, n) == LedTo(f.request.question, n) \/ Similar(f.similarity, f.request.question, n) > 0

\* One that leads to it by its words, or is so similar that it counts for more than the
\* best serving confidence.
Telling(f, n) ==
    \/ LedTo(f.request.question, n)
    \/ 65 * Similar(f.similarity, f.request.question, n) > 10 * 100

\* What belongs in a manifest with a node that is selected.
Section(n) ==
    {m \in DOMAIN Parent : /\ n \in DOMAIN Parent /\ Parent[m] = Parent[n]
                           /\ Chapter[m] # NoChapter /\ Chapter[m] = Chapter[n]}

\* An answer is based on the snapshot its query read, although a manifest is found by a
\* hash without snapshot or router, ingestion goes on meanwhile and the model may be
\* given up in the middle of a query: it cites nodes of that snapshot, each that its
\* manifest names, and at least one if the snapshot had any; it leads with a relevant one
\* if there is one that no confidence of a root can outweigh, unless nodes were asked
\* for; and, if its manifest was compiled when the edges were there, it leaves out part of
\* a selected node's section only for the budget.
AnswersFromItsSnapshot ==
    \A r \in Readers : reading[r].stage = "answered" =>
        LET f == reading[r]
            cited == ToSet(f.cited)
        IN  /\ \A n \in cited : Home[n] = f.snapshot
            /\ f.cited = f.items
            /\ f.found # {} => cited # {}
            /\ (f.request.wanted \cap f.found = {} /\ \E n \in f.found : Telling(f, n))
                  => Relevant(f, Head(f.cited))
            /\ f.joined => \/ Len(f.items) = Budget
                           \/ \A n \in ToSet(f.selected) : Section(n) \subseteq cited
=============================================================================
