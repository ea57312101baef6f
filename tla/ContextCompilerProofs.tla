------------------------ MODULE ContextCompilerProofs ------------------------
(***************************************************************************)
(* What ContextCompiler does for any number of threads, tasks, queries and *)
(* calls: its types, the agreement of the cache with the database, the     *)
(* finality of an invalidation, and the token budget.                      *)
(***************************************************************************)
EXTENDS ContextCompiler, FiniteSetTheorems, TLAPS

(***************************************************************************)
(* Arithmetic of one packed node.                                          *)
(***************************************************************************)
\* A packed snippet counts at least one token and never more than remain: the
\* cut to four characters per remaining token is exactly enough.
LEMMA PackedTokensFit ==
    ASSUME NEW n \in Nodes, NEW r \in Nat \ {0}
    PROVE  PackedTokens(n, r) \in 1..r
<1> DEFINE c == MinOf(Chars[n], CharBudget)
<1>1. c \in Nat
  BY NodesAssumption, ValuesAssumption DEF MinOf
<1>2. \A d \in Nat : TokenCount(d) \in Nat \ {0}
  BY DEF TokenCount, MaxOf
<1>3. CASE TokenCount(c) > r
  <2>1. MaxOf(4, r * 4) = r * 4
    BY DEF MaxOf
  <2>2. MinOf(c, r * 4) \in Nat /\ MinOf(c, r * 4) <= r * 4
    BY <1>1 DEF MinOf
  <2>3. \A d \in Nat : d <= r * 4 => TokenCount(d) <= r
    BY DEF TokenCount, MaxOf
  <2> QED BY <1>1, <1>2, <1>3, <2>1, <2>2, <2>3 DEF PackedTokens
<1>4. CASE ~(TokenCount(c) > r)
  BY <1>1, <1>2, <1>4 DEF PackedTokens
<1> QED BY <1>3, <1>4

(***************************************************************************)
(* Orders of a set of siblings.                                            *)
(***************************************************************************)
\* An order of a finite set is a duplicate-free sequence of its elements.
LEMMA OrderingIsSequence ==
    ASSUME NEW S \in SUBSET Nodes, NEW s \in Orderings(S)
    PROVE  /\ s \in Seq(S)
           /\ Distinct(s)
<1>1. IsFiniteSet(S)
  BY FS_Subset, NodesAssumption
<1>2. Cardinality(S) \in Nat
  BY <1>1, FS_CardinalityType
<1>3. s \in [1..Cardinality(S) -> S]
  BY DEF Orderings
<1>4. s \in Seq(S) /\ Len(s) = Cardinality(S)
  BY <1>2, <1>3
<1> QED BY <1>4 DEF Orderings, Distinct

LEMMA SiblingsAreNodes ==
    ASSUME NEW n \in Nodes, NEW seen
    PROVE  SectionSiblings(n, seen) \subseteq Nodes
BY NodesAssumption DEF SectionSiblings

\* The names of the steps and one fact on updating one thread's locals.
LEMMA StepNames ==
    /\ "find" \in Steps /\ "cacheLoad" \in Steps /\ "fillCache" \in Steps
    /\ "expand" \in Steps /\ "pack" \in Steps /\ "store" \in Steps
    /\ "setCache" \in Steps
BY DEF Steps

LEMMA FrameStep ==
    ASSUME TypeOK, NEW t \in Threads, NEW f, frame' = [frame EXCEPT ![t] = f]
    PROVE  /\ f \in Frame => frame' \in [Threads -> Frame]
           /\ frame'[t] = f
           /\ \A u \in Threads : u # t => frame'[u] = frame[u]
BY DEF TypeOK

\* Nobody is in a call: the locals have their default values.
LEMMA CallType ==
    /\ NoCall \in Frame
    /\ NoCall.pc = "idle"
    /\ \A q \in Queries, b \in Budgets : Call("cacheGet", q, b) \in Frame
BY ValuesAssumption DEF NoCall, Call, Frame, Steps, Ids, NoId

-----------------------------------------------------------------------------
(***************************************************************************)
(* The inductive invariant.  The types alone are not inductive: a call     *)
(* that is about to store or to cache must hold a real id, and an id that  *)
(* is about to be stored must be nobody else's.                            *)
(***************************************************************************)
AllocatedIds == \A i \in DOMAIN manifests : i < nextId

CallHoldsStored(t) ==
    frame[t].pc \in {"cacheLoad", "fillCache", "setCache"} =>
        /\ frame[t].mid \in DOMAIN manifests
        /\ manifests[frame[t].mid].hash = frame[t].req

BuildHoldsFreshId(t) ==
    frame[t].pc = "store" =>
        /\ frame[t].mid \in Ids
        /\ frame[t].mid < nextId
        /\ frame[t].mid \notin DOMAIN manifests

BuildsDiffer ==
    \A t, u \in Threads :
        t # u /\ frame[t].pc = "store" /\ frame[u].pc = "store" =>
            frame[t].mid # frame[u].mid

TaskHasTarget(j) ==
    task[j] \in {"committed", "deleted"} => target[j] \in DOMAIN manifests

CallInv == \A t \in Threads : CallHoldsStored(t) /\ BuildHoldsFreshId(t)
TaskInv == \A j \in Tasks : TaskHasTarget(j)

IInv ==
    /\ TypeOK
    /\ AllocatedIds
    /\ CallInv
    /\ BuildsDiffer
    /\ TaskInv
    /\ CacheRefersToStored
    /\ AnswerIsForRequest

LEMMA InitInductive == Init => IInv
<1> SUFFICES ASSUME Init PROVE IInv
  OBVIOUS
<1>1. TypeOK
  <2>1. manifests \in [DOMAIN manifests -> Manifest] /\ DOMAIN manifests = {}
    BY DEF Init
  <2> QED
    BY <2>1, CallType, BoundsAssumption
    DEF Init, TypeOK, Ids, NoId, NoAnswer, TaskSteps
<1>2. AllocatedIds /\ CacheRefersToStored
  BY DEF Init, AllocatedIds, CacheRefersToStored
<1>3. CallInv /\ BuildsDiffer
  BY CallType DEF Init, CallInv, CallHoldsStored, BuildHoldsFreshId, BuildsDiffer
<1>4. TaskInv /\ AnswerIsForRequest
  BY DEF Init, TaskInv, TaskHasTarget, AnswerIsForRequest, Answered, NoAnswer
<1> QED BY <1>1, <1>2, <1>3, <1>4 DEF IInv

\* A packed node extends the items and the count by values of their types.
LEMMA PackNodeTypes ==
    ASSUME TypeOK, NEW t \in Threads, PackNode(t)
    PROVE  frame' \in [Threads -> Frame]
<1> DEFINE n == frame[t].expanded[frame[t].k]
           r == Remaining(t)
<1>1. frame[t] \in Frame
  BY DEF TypeOK
<1>2. n \in Nodes
  BY <1>1 DEF PackNode, Frame
<1>3. r \in Nat \ {0}
  BY <1>1, ValuesAssumption DEF PackNode, Frame, Remaining
<1>4. PackedTokens(n, r) \in 1..r
  BY <1>2, <1>3, PackedTokensFit
<1> DEFINE item == [node |-> n, tokens |-> PackedTokens(n, r)]
<1>5. Append(frame[t].items, item) \in Seq(Item)
  BY <1>1, <1>2, <1>4 DEF Frame, Item
<1>6. frame[t].actual + PackedTokens(n, r) \in Nat /\ frame[t].k + 1 \in Nat \ {0}
  BY <1>1, <1>4 DEF Frame
<1>7. frame' = [frame EXCEPT ![t] =
                  [@ EXCEPT !.items = Append(frame[t].items, item),
                            !.actual = frame[t].actual + PackedTokens(n, r),
                            !.k = frame[t].k + 1]]
  BY DEF PackNode
<1> HIDE DEF n, r, item
<1> DEFINE f == [frame[t] EXCEPT !.items = Append(frame[t].items, item),
                                 !.actual = frame[t].actual + PackedTokens(n, r),
                                 !.k = frame[t].k + 1]
<1>8. f \in Frame
  BY <1>1, <1>5, <1>6 DEF Frame
<1>9. frame'[t] = f
  BY <1>7 DEF TypeOK
<1> QED BY <1>7, <1>8, <1>9 DEF TypeOK

\* Every step keeps the inductive invariant: one step per action.
LEMMA NextInductive == IInv /\ [Next]_vars => IInv'
<1> SUFFICES ASSUME IInv, [Next]_vars PROVE IInv'
  OBVIOUS
<1> USE DEF IInv, AllocatedIds, CallInv, CallHoldsStored, BuildHoldsFreshId,
             BuildsDiffer, TaskInv, TaskHasTarget, CacheRefersToStored,
             AnswerIsForRequest, Answered
<1> DEFINE Rest ==
      /\ AllocatedIds'
      /\ CallInv'
      /\ BuildsDiffer'
      /\ TaskInv'
      /\ CacheRefersToStored'
      /\ AnswerIsForRequest'
<1>1. ASSUME NEW t \in Threads, NEW q \in Queries, NEW b \in Budgets,
             StartCompile(t, q, b)
      PROVE  IInv'
  <2>1. Call("cacheGet", q, b) \in Frame
    BY CallType
  <2>2. TypeOK'
    BY <1>1, <2>1, BoundsAssumption DEF TypeOK, StartCompile, taskVars
  <2>3. Rest
    BY <1>1 DEF StartCompile, Call, NoAnswer, TypeOK, taskVars
  <2> QED BY <2>2, <2>3
<1>2. ASSUME NEW t \in Threads, CacheGet(t) PROVE IInv'
  <2>1. frame[t] \in Frame /\ cache[frame[t].req] \in Ids \cup {NoId}
    BY DEF TypeOK, Frame
  <2>2. frame'[t] \in Frame
    BY <1>2, <2>1 DEF TypeOK, CacheGet, Frame, Steps
  <2>3. TypeOK'
    BY <1>2, <2>2 DEF TypeOK, CacheGet, taskVars
  <2>4. Rest
    BY <1>2 DEF CacheGet, TypeOK, Frame, taskVars
  <2> QED BY <2>3, <2>4
<1>3. ASSUME NEW t \in Threads, CacheLoad(t) PROVE IInv'
  <2>1. frame[t].mid \in DOMAIN manifests /\ frame[t].mid \in Ids
    BY <1>3 DEF CacheLoad, At, TypeOK
  <2>2. manifests[frame[t].mid] \in Manifest /\ frame[t] \in Frame
    BY <2>1 DEF TypeOK
  <2>3. answer'[t] \in Answer
    BY <1>3, <2>1, <2>2 DEF TypeOK, CacheLoad, Return, Frame, Manifest, Answer
  <2>5. TypeOK'
    BY <1>3, <2>1, <2>3, CallType DEF TypeOK, CacheLoad, Return, taskVars
  <2>4. Rest
    BY <1>3, <2>1, CallType DEF CacheLoad, At, Return, TypeOK, taskVars
  <2> QED BY <2>4, <2>5
<1>4. ASSUME NEW t \in Threads, FindPersisted(t) PROVE IInv'
  <2>1. PICK i \in ActiveFor(frame[t].req) :
           frame' = [frame EXCEPT ![t] =
                       [@ EXCEPT !.pc = "fillCache", !.mid = i]]
    BY <1>4 DEF FindPersisted
  <2>2. i \in DOMAIN manifests /\ manifests[i].hash = frame[t].req
    BY DEF ActiveFor
  <2> DEFINE f == [frame[t] EXCEPT !.pc = "fillCache", !.mid = i]
  <2>8. frame[t] \in Frame /\ i \in Ids \cup {NoId}
    BY <2>2 DEF TypeOK
  <2>3. f \in Frame
    BY <2>2, <2>8, StepNames DEF Frame
  <2>4. /\ frame' \in [Threads -> Frame]
        /\ frame'[t] = f
        /\ \A u \in Threads : u # t => frame'[u] = frame[u]
    BY <2>1, <2>3, FrameStep
  <2>5. f.pc = "fillCache" /\ f.mid = i /\ f.req = frame[t].req
    BY DEF TypeOK, Frame
  <2> HIDE DEF f
  <2>6. TypeOK'
    BY <1>4, <2>4 DEF TypeOK, FindPersisted, taskVars
  <2>7. Rest
    <3>1. /\ UNCHANGED <<manifests, cache, nextId, answer, task, target>>
      BY <1>4 DEF FindPersisted, taskVars
    <3>2. CallInv'
      BY <3>1, <2>2, <2>4, <2>5
    <3>3. BuildsDiffer'
      BY <3>1, <2>4, <2>5
    <3> QED BY <3>1, <3>2, <3>3
  <2> QED BY <2>6, <2>7
<1>5. ASSUME NEW t \in Threads, FindNothing(t) PROVE IInv'
  <2>1. Selected[frame[t].req] \in Seq(Nodes)
    BY SelectedAssumption DEF TypeOK, Frame
  <2>6. frame[t] \in Frame
    BY DEF TypeOK
  <2>2. [frame[t] EXCEPT !.pc = "expand", !.expanded = Selected[frame[t].req]] \in Frame
    BY <2>1, <2>6, StepNames DEF Frame
  <2>3. frame' \in [Threads -> Frame]
    BY <1>5, <2>2, FrameStep DEF FindNothing
  <2>7. missed' \subseteq Queries
    BY <1>5, <2>6 DEF FindNothing, TypeOK, Frame
  <2>4. TypeOK'
    BY <1>5, <2>3, <2>7 DEF TypeOK, FindNothing, taskVars
  <2>5. Rest
    BY <1>5 DEF FindNothing, TypeOK, Frame, taskVars
  <2> QED BY <2>4, <2>5
<1>6. ASSUME NEW t \in Threads, CacheSet(t) PROVE IInv'
  <2>1. /\ frame[t].mid \in DOMAIN manifests
        /\ manifests[frame[t].mid].hash = frame[t].req
    BY <1>6 DEF CacheSet
  <2>2. frame[t] \in Frame /\ frame[t].mid \in Ids
    BY <2>1 DEF TypeOK
  <2>3. TypeOK'
    BY <1>6, <2>2, CallType DEF TypeOK, CacheSet, Return, Frame, Answer, taskVars
  <2>4. Rest
    BY <1>6, <2>1, <2>2, CallType, SMTT(30) DEF CacheSet, Return, TypeOK, taskVars, Frame
  <2> QED BY <2>3, <2>4
<1>7. ASSUME NEW t \in Threads, ExpandNode(t) PROVE IInv'
  <2>0. PICK found \in {{}, SectionSiblings(Selected[frame[t].req][frame[t].k],
                                            Elements(frame[t].expanded))} :
           \E siblings \in Orderings(found) :
              frame' = [frame EXCEPT ![t] =
               [@ EXCEPT !.expanded = frame[t].expanded \o siblings, !.k = frame[t].k + 1]]
    BY <1>7 DEF ExpandNode
  <2>1. PICK siblings \in Orderings(found) :
           frame' = [frame EXCEPT ![t] =
               [@ EXCEPT !.expanded = frame[t].expanded \o siblings, !.k = frame[t].k + 1]]
    BY <2>0
  <2>2. frame[t] \in Frame
    BY DEF TypeOK
  <2>3. Selected[frame[t].req][frame[t].k] \in Nodes
    BY <1>7, <2>2, SelectedAssumption DEF ExpandNode, Frame
  <2>4. found \in SUBSET Nodes
    BY <2>3, SiblingsAreNodes
  <2>5. siblings \in Seq(Nodes)
    BY <2>4, OrderingIsSequence
  <2>6. frame[t].expanded \o siblings \in Seq(Nodes)
    BY <2>2, <2>5 DEF Frame
  <2>7. frame[t].k + 1 \in Nat \ {0}
    BY <2>2 DEF Frame
  <2> DEFINE f == [frame[t] EXCEPT !.expanded = frame[t].expanded \o siblings, !.k = frame[t].k + 1]
  <2>11. f \in Frame
    BY <2>2, <2>6, <2>7 DEF Frame
  <2>12. frame' \in [Threads -> Frame]
    BY <2>1, <2>11 DEF TypeOK
  <2>8. TypeOK'
    BY <1>7, <2>12 DEF TypeOK, ExpandNode, taskVars
  <2>9. \A u \in Threads : /\ frame'[u].pc = frame[u].pc
                           /\ frame'[u].mid = frame[u].mid
                           /\ frame'[u].req = frame[u].req
    BY <2>1 DEF TypeOK, Frame
  <2>10. Rest
    BY <1>7, <2>9 DEF ExpandNode, taskVars
  <2> QED BY <2>8, <2>10
<1>8. ASSUME NEW t \in Threads, ExpandDone(t) PROVE IInv'
  <2>5. frame[t] \in Frame /\ 1 \in Nat \ {0}
    BY DEF TypeOK
  <2>3. [frame[t] EXCEPT !.pc = "pack", !.k = 1] \in Frame
    BY <2>5, StepNames DEF Frame
  <2>4. frame' \in [Threads -> Frame]
    BY <1>8, <2>3, FrameStep DEF ExpandDone
  <2>1. TypeOK'
    BY <1>8, <2>4 DEF TypeOK, ExpandDone, taskVars
  <2>2. Rest
    BY <1>8 DEF ExpandDone, TypeOK, Frame, taskVars
  <2> QED BY <2>1, <2>2
<1>9. ASSUME NEW t \in Threads, PackNode(t) PROVE IInv'
  <2>1. TypeOK'
    BY <1>9, PackNodeTypes DEF TypeOK, PackNode, taskVars
  <2>2. \A u \in Threads : /\ frame'[u].pc = frame[u].pc
                           /\ frame'[u].mid = frame[u].mid
                           /\ frame'[u].req = frame[u].req
    BY <1>9 DEF PackNode, TypeOK, Frame
  <2>3. Rest
    BY <1>9, <2>2 DEF PackNode, taskVars
  <2> QED BY <2>1, <2>3
<1>10. ASSUME NEW t \in Threads, PackDone(t) PROVE IInv'
  <2>5. frame[t] \in Frame /\ nextId \in Ids
    BY DEF TypeOK
  <2>3. [frame[t] EXCEPT !.pc = "store", !.mid = nextId] \in Frame
    BY <2>5, StepNames DEF Frame
  <2>4. frame' \in [Threads -> Frame] /\ nextId + 1 \in Ids
    BY <1>10, <2>3, FrameStep DEF PackDone, TypeOK, Ids
  <2>1. TypeOK'
    BY <1>10, <2>4 DEF TypeOK, PackDone, taskVars
  <2>2. Rest
    BY <1>10, SMTT(30) DEF PackDone, At, TypeOK, Frame, Ids, taskVars
  <2> QED BY <2>1, <2>2
<1>11. ASSUME NEW t \in Threads, StoreManifest(t) PROVE IInv'
  <2>1. /\ frame[t] \in Frame
        /\ frame[t].mid \in Ids
        /\ frame[t].mid < nextId
        /\ frame[t].mid \notin DOMAIN manifests
    BY <1>11 DEF StoreManifest, At, TypeOK
  <2>2. Built(t) \in Manifest
    BY <2>1 DEF Built, Manifest, Frame
  <2>3. /\ DOMAIN manifests' = DOMAIN manifests \cup {frame[t].mid}
        /\ manifests'[frame[t].mid] = Built(t)
        /\ \A i \in DOMAIN manifests : manifests'[i] = manifests[i]
    BY <1>11, <2>1 DEF StoreManifest
  <2>4. manifests' \in [DOMAIN manifests' -> Manifest]
    BY <1>11, <2>2 DEF StoreManifest, TypeOK
  <2>5. TypeOK'
    BY <1>11, <2>1, <2>3, <2>4 DEF TypeOK, StoreManifest, Frame, Steps, taskVars
  <2>6. CallInv'
    BY <1>11, <2>1, <2>3
    DEF StoreManifest, At, Built, TypeOK, Frame
  <2>7. AllocatedIds' /\ BuildsDiffer' /\ TaskInv'
    BY <1>11, <2>1, <2>3
    DEF StoreManifest, TypeOK, taskVars
  <2>8. CacheRefersToStored' /\ AnswerIsForRequest'
    BY <1>11, <2>1, <2>3
    DEF StoreManifest
  <2> QED BY <2>5, <2>6, <2>7, <2>8
<1>12. ASSUME NEW t \in Threads, CompileFails(t) PROVE IInv'
  <2>1. TypeOK'
    BY <1>12, CallType DEF TypeOK, CompileFails, taskVars
  <2>2. Rest
    BY <1>12, CallType DEF CompileFails, TypeOK, taskVars
  <2> QED BY <2>1, <2>2
<1>13. ASSUME NEW q \in Queries, Expire(q) PROVE IInv'
  <2>1. TypeOK'
    BY <1>13 DEF TypeOK, Expire, taskVars
  <2>2. Rest
    BY <1>13 DEF Expire, TypeOK, taskVars
  <2> QED BY <2>1, <2>2
<1>14. ASSUME NEW j \in Tasks, NEW i \in DOMAIN manifests \cup {NoId},
              SendInvalidation(j, i)
       PROVE  IInv'
  <2>1. TypeOK'
    BY <1>14 DEF TypeOK, SendInvalidation, otherThanTasks, TaskSteps
  <2>2. Rest
    BY <1>14 DEF SendInvalidation, TypeOK, otherThanTasks
  <2> QED BY <2>1, <2>2
<1>15. ASSUME NEW j \in Tasks, InvalidateRow(j) PROVE IInv'
  <2>4. DOMAIN manifests' = DOMAIN manifests
    BY <1>15 DEF InvalidateRow
  <2>5. \A m \in Manifest : /\ [m EXCEPT !.status = "invalidated"] \in Manifest
                            /\ [m EXCEPT !.status = "invalidated"].hash = m.hash
    BY DEF Manifest
  <2>6. manifests' = [manifests EXCEPT ![target[j]] = [@ EXCEPT !.status = "invalidated"]]
    BY <1>15 DEF InvalidateRow
  <2>1. /\ DOMAIN manifests' = DOMAIN manifests
        /\ manifests' \in [DOMAIN manifests' -> Manifest]
        /\ \A i \in DOMAIN manifests : manifests'[i].hash = manifests[i].hash
    BY <2>4, <2>5, <2>6 DEF TypeOK
  <2>2. TypeOK'
    BY <1>15, <2>1 DEF TypeOK, InvalidateRow, otherThanTasks, TaskSteps
  <2>3. Rest
    BY <1>15, <2>1 DEF InvalidateRow, TypeOK, otherThanTasks
  <2> QED BY <2>2, <2>3
<1>16. ASSUME NEW j \in Tasks, InvalidateMissing(j) PROVE IInv'
  <2>1. TypeOK'
    BY <1>16 DEF TypeOK, InvalidateMissing, otherThanTasks, TaskSteps
  <2>2. Rest
    BY <1>16 DEF InvalidateMissing, TypeOK, otherThanTasks
  <2> QED BY <2>1, <2>2
<1>17. ASSUME NEW j \in Tasks, DeleteKey(j) PROVE IInv'
  <2>1. TypeOK'
    BY <1>17 DEF TypeOK, DeleteKey, otherThanTasks, TaskSteps
  <2>2. Rest
    BY <1>17 DEF DeleteKey, TypeOK, otherThanTasks
  <2> QED BY <2>1, <2>2
<1>18. ASSUME NEW j \in Tasks, AuditInvalidation(j) PROVE IInv'
  <2>1. target[j] \in Ids
    BY <1>18 DEF AuditInvalidation, TypeOK
  <2>2. TypeOK'
    BY <1>18, <2>1 DEF TypeOK, AuditInvalidation, otherThanTasks, TaskSteps
  <2>3. Rest
    BY <1>18 DEF AuditInvalidation, TypeOK, otherThanTasks
  <2> QED BY <2>2, <2>3
<1>19. ASSUME NEW j \in Tasks, TaskRaises(j) PROVE IInv'
  <2>1. TypeOK'
    BY <1>19, BoundsAssumption DEF TypeOK, TaskRaises, otherThanTasks, TaskSteps
  <2>2. Rest
    BY <1>19 DEF TaskRaises, TypeOK, otherThanTasks
  <2> QED BY <2>1, <2>2
<1>20. ASSUME NEW j \in Tasks, WorkerLost(j) PROVE IInv'
  <2>1. TypeOK'
    BY <1>20, BoundsAssumption DEF TypeOK, WorkerLost, otherThanTasks, TaskSteps
  <2>2. Rest
    BY <1>20 DEF WorkerLost, TypeOK, otherThanTasks
  <2> QED BY <2>1, <2>2
<1>21. CASE UNCHANGED vars
  BY <1>21 DEF vars, taskVars, TypeOK
<1> QED
  BY <1>1, <1>2, <1>3, <1>4, <1>5, <1>6, <1>7, <1>8, <1>9, <1>10, <1>11, <1>12,
     <1>13, <1>14, <1>15, <1>16, <1>17, <1>18, <1>19, <1>20, <1>21
  DEF Next, CompileStep, TaskStep

\* The inductive invariant holds, of which the next three theorems are parts.
THEOREM Invariance == Spec => []IInv
<1>1. Init => IInv
  BY InitInductive
<1>2. IInv /\ [Next]_vars => IInv'
  BY NextInductive
<1> QED BY <1>1, <1>2, PTL DEF Spec

\* The state of ContextCompiler keeps its types, for any number of threads and
\* invalidation messages.
THEOREM TypeCorrect == Spec => []TypeOK
<1>1. IInv => TypeOK
  BY DEF IInv
<1> QED BY <1>1, Invariance, PTL

\* The cache never refers to a manifest that is not stored under its key's hash.
THEOREM CacheAgreesWithStore == Spec => []CacheRefersToStored
<1>1. IInv => CacheRefersToStored
  BY DEF IInv
<1> QED BY <1>1, Invariance, PTL

\* compile only answers with stored manifests of the hash it was asked for.
THEOREM AnswersMatchRequests == Spec => []AnswerIsForRequest
<1>1. IInv => AnswerIsForRequest
  BY DEF IInv
<1> QED BY <1>1, Invariance, PTL

-----------------------------------------------------------------------------
(***************************************************************************)
(* An invalidated manifest that is nowhere held stays unheld: a step puts  *)
(* an id into a call or into the cache only from the cache, from an active *)
(* row, from another call or by allocating it.                             *)
(***************************************************************************)
LEMMA RetiredStep ==
    ASSUME IInv, [Next]_vars, NEW i \in DOMAIN manifests, Retired(i)
    PROVE  Retired(i)'
<1> USE DEF Retired, InFlight
<1>0. /\ i \in Ids
      /\ i < nextId
      /\ \A t \in Threads : frame[t].pc # "idle" => frame[t].mid # i
      /\ \A t \in Threads : frame[t].pc = "store" => frame[t].mid # i
      /\ \A t \in Threads : frame[t] \in Frame
  BY SMTT(30) DEF IInv, TypeOK, AllocatedIds
<1> DEFINE Rows == /\ i \in DOMAIN manifests'
                   /\ manifests'[i].status = "invalidated"
           Calls == \A t \in Threads : frame'[t].pc # "idle" => frame'[t].mid # i
           Keys == \A q \in Queries : cache'[q] # i
<1>1. Rows
  <2>1. CASE manifests' = manifests
    BY <2>1
  <2>2. ASSUME NEW t \in Threads, StoreManifest(t) PROVE Rows
    BY <1>0, <2>2 DEF StoreManifest, At
  <2>3. ASSUME NEW j \in Tasks, InvalidateRow(j) PROVE Rows
    BY <2>3 DEF InvalidateRow, IInv, TypeOK, Manifest
  <2> QED
    BY <2>1, <2>2, <2>3, ZenonT(40)
    DEF Next, CompileStep, TaskStep, vars, taskVars, StartCompile, CacheGet, CacheLoad,
        FindPersisted, FindNothing, CacheSet, ExpandNode, ExpandDone, PackNode,
        PackDone, CompileFails, Expire, SendInvalidation, InvalidateMissing,
        DeleteKey, AuditInvalidation, TaskRaises, WorkerLost
<1>2. Keys
  <2>1. CASE cache' = cache
    BY <2>1
  <2>2. ASSUME NEW t \in Threads, CacheSet(t) PROVE Keys
    BY <1>0, <2>2 DEF CacheSet, IInv, TypeOK
  <2>3. ASSUME NEW q \in Queries, Expire(q) PROVE Keys
    BY <1>0, <2>3 DEF Expire, IInv, TypeOK, Ids, NoId
  <2>4. ASSUME NEW j \in Tasks, DeleteKey(j) PROVE Keys
    BY <1>0, <2>4 DEF DeleteKey, IInv, TypeOK, Ids, NoId
  <2> QED
    BY <2>1, <2>2, <2>3, <2>4
    DEF Next, CompileStep, TaskStep, vars, taskVars, StartCompile, CacheGet, CacheLoad,
        FindPersisted, FindNothing, ExpandNode, ExpandDone, PackNode, PackDone,
        StoreManifest, CompileFails, SendInvalidation, InvalidateRow,
        InvalidateMissing, AuditInvalidation, TaskRaises, WorkerLost
<1>3. Calls
  <2>1. CASE frame' = frame
    BY <1>0, <2>1
  <2>2. ASSUME NEW t \in Threads, NEW q \in Queries, NEW b \in Budgets,
               StartCompile(t, q, b)
        PROVE  Calls
    BY <1>0, <2>2 DEF StartCompile, Call, IInv, TypeOK, Ids, NoId
  <2>3. ASSUME NEW t \in Threads, CacheGet(t) PROVE Calls
    BY <1>0, <2>3 DEF CacheGet, Frame, IInv, TypeOK
  <2>4. ASSUME NEW t \in Threads, CacheLoad(t) \/ CacheSet(t) \/ CompileFails(t)
        PROVE  Calls
    BY <1>0, <2>4, CallType
    DEF CacheLoad, CacheSet, CompileFails, Return, At, IInv, TypeOK, CallInv,
        CallHoldsStored
  <2>5. ASSUME NEW t \in Threads, FindPersisted(t) PROVE Calls
    BY <1>0, <2>5 DEF FindPersisted, ActiveFor, Frame, IInv, TypeOK
  <2>6. ASSUME NEW t \in Threads,
               FindNothing(t) \/ ExpandDone(t) \/ StoreManifest(t)
        PROVE  Calls
    <3>0. frame \in [Threads -> Frame]
      BY DEF IInv, TypeOK
    <3>3. frame[t].mid # i
      BY <1>0, <2>6 DEF FindNothing, ExpandDone, StoreManifest, At
    <3>4. FindNothing(t) => frame'[t].mid = frame[t].mid
      BY <3>0 DEF FindNothing, Frame
    <3>5. ExpandDone(t) => frame'[t].mid = frame[t].mid
      BY <3>0 DEF ExpandDone, Frame
    <3>6. StoreManifest(t) => frame'[t].mid = frame[t].mid
      BY <3>0 DEF StoreManifest, Frame
    <3>1. frame[t].mid # i /\ frame'[t].mid = frame[t].mid
      BY <2>6, <3>3, <3>4, <3>5, <3>6
    <3>2. \A u \in Threads : u # t => frame'[u] = frame[u]
      BY <2>6 DEF FindNothing, ExpandDone, StoreManifest, IInv, TypeOK
    <3> QED BY <1>0, <3>1, <3>2
  <2>7. ASSUME NEW t \in Threads, ExpandNode(t) \/ PackNode(t) PROVE Calls
    <3>0. frame \in [Threads -> Frame]
      BY DEF IInv, TypeOK
    <3>1. CASE ExpandNode(t)
      <4>1. PICK e, k : frame' = [frame EXCEPT ![t] = [@ EXCEPT !.expanded = e, !.k = k]]
        BY <3>1 DEF ExpandNode
      <4>2. frame'[t].mid = frame[t].mid /\ frame[t].pc # "idle"
        BY <3>0, <3>1, <4>1 DEF ExpandNode, At, Frame
      <4>3. \A u \in Threads : u # t => frame'[u] = frame[u]
        BY <3>0, <4>1
      <4> QED BY <1>0, <4>2, <4>3
    <3>2. CASE PackNode(t)
      <4>1. PICK items, n, k :
                frame' = [frame EXCEPT ![t] =
                    [@ EXCEPT !.items = items, !.actual = n, !.k = k]]
        BY <3>2 DEF PackNode
      <4>2. frame'[t].mid = frame[t].mid /\ frame[t].pc # "idle"
        BY <3>0, <3>2, <4>1 DEF PackNode, At, Frame
      <4>3. \A u \in Threads : u # t => frame'[u] = frame[u]
        BY <3>0, <4>1
      <4> QED BY <1>0, <4>2, <4>3
    <3> QED BY <2>7, <3>1, <3>2
  <2>8. ASSUME NEW t \in Threads, PackDone(t) PROVE Calls
    BY <1>0, <2>8 DEF PackDone, Frame, IInv, TypeOK, Ids
  <2> QED
    BY <2>1, <2>2, <2>3, <2>4, <2>5, <2>6, <2>7, <2>8
    DEF Next, CompileStep, TaskStep, vars, Expire, SendInvalidation, InvalidateRow,
        InvalidateMissing, DeleteKey, AuditInvalidation, TaskRaises, WorkerLost,
        otherThanTasks
<1> QED BY <1>1, <1>2, <1>3

\* Once invalidated, uncached and held by no call, a manifest is never served or
\* cached again.
THEOREM RetiredIsFinal == Spec => RetiredStaysRetired
<1>1. IInv /\ [Next]_vars =>
          [\A i \in DOMAIN manifests : Retired(i) => Retired(i)']_vars
  BY RetiredStep
<1> QED BY <1>1, Invariance, PTL DEF Spec, RetiredStaysRetired

-----------------------------------------------------------------------------
(***************************************************************************)
(* The token budget.  What a call has packed so far fits its budget; every *)
(* other step leaves rows and packed tokens alone or copies the one into   *)
(* the other.                                                              *)
(***************************************************************************)
CallFits(t) == frame[t].actual <= MaxOf(frame[t].budget, 0)
BudgetInv == ManifestsFitBudget /\ \A t \in Threads : CallFits(t)

LEMMA NewCallFits ==
    /\ NoCall.actual <= MaxOf(NoCall.budget, 0)
    /\ \A q \in Queries, b \in Budgets :
           Call("cacheGet", q, b).actual <= MaxOf(Call("cacheGet", q, b).budget, 0)
<1>1. \A x \in Int : 0 <= MaxOf(x, 0)
  BY DEF MaxOf
<1>2. NoCall.actual = 0 /\ NoCall.budget \in Int
  BY CallType, ValuesAssumption DEF NoCall, Call, Frame
<1>3. \A q \in Queries, b \in Budgets :
         Call("cacheGet", q, b).actual = 0 /\ Call("cacheGet", q, b).budget \in Int
  BY ValuesAssumption DEF Call
<1> QED BY <1>1, <1>2, <1>3

LEMMA InitBudget == Init => BudgetInv
BY NewCallFits DEF Init, BudgetInv, ManifestsFitBudget, CallFits

LEMMA BudgetStep == IInv /\ BudgetInv /\ [Next]_vars => BudgetInv'
<1> SUFFICES ASSUME IInv, BudgetInv, [Next]_vars PROVE BudgetInv'
  OBVIOUS
<1>0. frame \in [Threads -> Frame]
  BY Zenon DEF IInv, TypeOK
<1>1. ManifestsFitBudget'
  <2>1. CASE manifests' = manifests
    BY <2>1 DEF BudgetInv, ManifestsFitBudget
  <2>2. ASSUME NEW t \in Threads, StoreManifest(t) PROVE ManifestsFitBudget'
    <3>1. FitsBudget(Built(t))
      BY DEF BudgetInv, CallFits, FitsBudget, Built
    <3> QED
      BY <2>2, <3>1 DEF StoreManifest, BudgetInv, ManifestsFitBudget
  <2>3. ASSUME NEW j \in Tasks, InvalidateRow(j) PROVE ManifestsFitBudget'
    <3>1. \A i \in DOMAIN manifests :
             /\ manifests'[i].budget = manifests[i].budget
             /\ manifests'[i].actual = manifests[i].actual
      BY <2>3 DEF InvalidateRow, IInv, TypeOK, Manifest
    <3>2. DOMAIN manifests' = DOMAIN manifests
      BY <2>3 DEF InvalidateRow
    <3> QED BY <3>1, <3>2 DEF BudgetInv, ManifestsFitBudget, FitsBudget
  <2> QED
    BY <2>1, <2>2, <2>3
    DEF Next, CompileStep, TaskStep, vars, taskVars, StartCompile, CacheGet, CacheLoad,
        FindPersisted, FindNothing, CacheSet, ExpandNode, ExpandDone, PackNode,
        PackDone, CompileFails, Expire, SendInvalidation, InvalidateMissing,
        DeleteKey, AuditInvalidation, TaskRaises, WorkerLost
<1>2. \A t \in Threads : CallFits(t)'
  <2> DEFINE Same(t) == /\ frame'[t].actual = frame[t].actual
                        /\ frame'[t].budget = frame[t].budget
             Fits == \A u \in Threads : CallFits(u)'
  <2>1. CASE \A u \in Threads : Same(u)
    BY <2>1 DEF BudgetInv, CallFits
  <2>2. ASSUME NEW t \in Threads, NEW q \in Queries, NEW b \in Budgets,
               StartCompile(t, q, b)
        PROVE  Fits
    BY <1>0, <2>2, NewCallFits DEF StartCompile, BudgetInv, CallFits
  <2>3. ASSUME NEW t \in Threads, CacheLoad(t) \/ CacheSet(t) \/ CompileFails(t)
        PROVE  Fits
    <3>1. \A u \in Threads : Same(u) \/ frame'[u] = NoCall
      <4>1. frame'[t] = NoCall \/ Same(t)
        BY <1>0, <2>3 DEF CacheLoad, CacheSet, CompileFails, Return, Frame
      <4>2. \A u \in Threads : u # t => frame'[u] = frame[u]
        BY <1>0, <2>3 DEF CacheLoad, CacheSet, CompileFails, Return
      <4> QED BY <4>1, <4>2
    <3> QED BY <3>1, NewCallFits DEF BudgetInv, CallFits
  <2>4. ASSUME NEW t \in Threads,
               \/ CacheGet(t) \/ FindPersisted(t) \/ FindNothing(t)
               \/ ExpandNode(t) \/ ExpandDone(t) \/ PackDone(t) \/ StoreManifest(t)
        PROVE  \A u \in Threads : Same(u)
    <3>1. Same(t)
      <4>1. CASE CacheGet(t)
        BY <1>0, <4>1 DEF CacheGet, Frame
      <4>2. CASE FindPersisted(t)
        <5>1. PICK i : frame' = [frame EXCEPT ![t] = [@ EXCEPT !.pc = "fillCache", !.mid = i]]
          BY <4>2 DEF FindPersisted
        <5> QED
          BY <1>0, <5>1 DEF Frame
      <4>3. CASE FindNothing(t)
        BY <1>0, <4>3 DEF FindNothing, Frame
      <4>4. CASE ExpandDone(t)
        BY <1>0, <4>4 DEF ExpandDone, Frame
      <4>5. CASE PackDone(t)
        BY <1>0, <4>5 DEF PackDone, Frame
      <4>6. CASE StoreManifest(t)
        BY <1>0, <4>6 DEF StoreManifest, Frame
      <4>7. CASE ExpandNode(t)
        <5>1. PICK e, k : frame' = [frame EXCEPT ![t] = [@ EXCEPT !.expanded = e, !.k = k]]
          BY <4>7 DEF ExpandNode
        <5> QED
          BY <1>0, <5>1 DEF Frame
      <4> QED BY <2>4, <4>1, <4>2, <4>3, <4>4, <4>5, <4>6, <4>7
    <3>2. \A u \in Threads : u # t => frame'[u] = frame[u]
      BY <1>0, <2>4
      DEF CacheGet, FindPersisted, FindNothing, ExpandNode, ExpandDone, PackDone,
          StoreManifest
    <3> QED BY <3>1, <3>2
  <2>5. ASSUME NEW t \in Threads, PackNode(t) PROVE Fits
    <3> DEFINE r == Remaining(t)
               p == PackedTokens(frame[t].expanded[frame[t].k], r)
    <3>1. frame[t] \in Frame
      BY <1>0
    <3>2. r \in Nat \ {0} /\ frame[t].expanded[frame[t].k] \in Nodes
      BY <2>5, <3>1, ValuesAssumption DEF PackNode, Frame, Remaining
    <3>3. p \in 1..r
      BY <3>2, PackedTokensFit
    <3>4. /\ frame'[t].actual = frame[t].actual + p
          /\ frame'[t].budget = frame[t].budget
      BY <1>0, <2>5, <3>1 DEF PackNode, Frame
    <3>5. CallFits(t)'
      <4>1. frame[t].actual \in Nat /\ frame[t].budget \in Int
        BY <3>1, ValuesAssumption DEF Frame
      <4>2. r = frame[t].budget - frame[t].actual /\ p \in Nat /\ p <= r
        BY <3>2, <3>3 DEF Remaining
      <4> HIDE DEF r, p
      <4>3. frame[t].actual + p <= frame[t].budget
        BY <4>1, <4>2
      <4>4. frame[t].actual + p <= MaxOf(frame[t].budget, 0)
        BY <4>1, <4>2, <4>3 DEF MaxOf
      <4> QED BY <3>4, <4>4 DEF CallFits
    <3>6. \A u \in Threads : u # t => frame'[u] = frame[u]
      BY <1>0, <2>5 DEF PackNode
    <3> QED BY <3>5, <3>6 DEF BudgetInv, CallFits
  <2>6. CASE frame' = frame
    BY <2>1, <2>6
  <2> QED
    BY <2>1, <2>2, <2>3, <2>4, <2>5, <2>6
    DEF Next, CompileStep, TaskStep, vars, Expire, SendInvalidation, InvalidateRow,
        InvalidateMissing, DeleteKey, AuditInvalidation, TaskRaises, WorkerLost,
        otherThanTasks
<1> QED BY <1>1, <1>2 DEF BudgetInv

\* No stored manifest is over the token budget it was compiled for, whatever the
\* sizes of the nodes, the budgets and the character limit.
THEOREM BudgetIsKept == Spec => []ManifestsFitBudget
<1>1. Init => BudgetInv
  BY InitBudget
<1>2. IInv /\ BudgetInv /\ [Next]_vars => BudgetInv'
  BY BudgetStep
<1>3. BudgetInv => ManifestsFitBudget
  BY SMTT(30) DEF BudgetInv
<1> QED BY <1>1, <1>2, <1>3, Invariance, PTL DEF Spec

-----------------------------------------------------------------------------
(***************************************************************************)
(* Following an invalidation up.  The row is committed by the task that    *)
(* will audit it, and nothing but the task itself ends the task.           *)
(***************************************************************************)
LEMMA FollowedUpStep == IInv /\ InvalidationIsFollowedUp /\ [Next]_vars => InvalidationIsFollowedUp'
<1> SUFFICES ASSUME IInv, InvalidationIsFollowedUp, [Next]_vars,
                    NEW i \in DOMAIN manifests', manifests'[i].status = "invalidated"
             PROVE  \/ i \in audited'
                    \/ \E j \in Tasks : target'[j] = i /\ (Running(j)' \/ task'[j] = "failed")
  BY DEF InvalidationIsFollowedUp
<1> DEFINE Invalid == i \in DOMAIN manifests /\ manifests[i].status = "invalidated"
           Pending(j) == target[j] = i /\ (Running(j) \/ task[j] = "failed")
           Followed == i \in audited' \/ \E j \in Tasks : Pending(j)'
<1>0. /\ task \in [Tasks -> TaskSteps]
      /\ target \in [Tasks -> Ids \cup {NoId}]
      /\ manifests \in [DOMAIN manifests -> Manifest]
  BY DEF IInv, TypeOK
<1>1. Invalid => i \in audited \/ \E j \in Tasks : Pending(j)
  BY DEF InvalidationIsFollowedUp
<1>2. CASE UNCHANGED <<manifests, task, target, audited>>
  BY <1>1, <1>2 DEF Running
<1>3. ASSUME NEW t \in Threads, StoreManifest(t) PROVE Followed
  <2>1. Invalid
    BY <1>3 DEF StoreManifest, Built
  <2> QED
    BY <1>1, <1>3, <2>1 DEF StoreManifest, Running, taskVars
<1>4. ASSUME NEW j \in Tasks, InvalidateRow(j) PROVE Followed
  <2>1. CASE i = target[j]
    BY <1>0, <1>4, <2>1 DEF InvalidateRow, Running
  <2>2. CASE i # target[j]
    <3>1. Invalid
      BY <1>0, <1>4, <2>2 DEF InvalidateRow
    <3>2. \A u \in Tasks : Pending(u) => Pending(u)'
      BY <1>0, <1>4, <2>2 DEF InvalidateRow, Running
    <3> QED BY <1>1, <1>4, <3>1, <3>2 DEF InvalidateRow
  <2> QED BY <2>1, <2>2
<1>5. ASSUME NEW j \in Tasks, NEW m \in DOMAIN manifests \cup {NoId}, SendInvalidation(j, m)
      PROVE  Followed
  <2>1. \A u \in Tasks : Pending(u) => Pending(u)'
    BY <1>0, <1>5 DEF SendInvalidation, Running
  <2> QED BY <1>1, <1>5, <2>1 DEF SendInvalidation
<1>6. ASSUME NEW j \in Tasks, InvalidateMissing(j) PROVE Followed
  <2>1. Invalid
    BY <1>6 DEF InvalidateMissing
  <2>2. \A u \in Tasks : Pending(u) => Pending(u)'
    BY <1>0, <1>6, <2>1 DEF InvalidateMissing, Running
  <2> QED BY <1>1, <1>6, <2>1, <2>2 DEF InvalidateMissing
<1>7. ASSUME NEW j \in Tasks, AuditInvalidation(j) PROVE Followed
  <2>1. CASE i = target[j]
    BY <1>7, <2>1 DEF AuditInvalidation
  <2>2. CASE i # target[j]
    <3>1. \A u \in Tasks : Pending(u) => Pending(u)'
      BY <1>0, <1>7, <2>2 DEF AuditInvalidation, Running
    <3> QED BY <1>1, <1>7, <3>1 DEF AuditInvalidation
  <2> QED BY <2>1, <2>2
<1>8. ASSUME NEW j \in Tasks, DeleteKey(j) \/ TaskRaises(j) \/ WorkerLost(j)
      PROVE  Followed
  <2>1. \A u \in Tasks : Pending(u) => Pending(u)'
    BY <1>0, <1>8 DEF DeleteKey, TaskRaises, WorkerLost, Running
  <2> QED BY <1>1, <1>8, <2>1 DEF DeleteKey, TaskRaises, WorkerLost
<1> QED
  BY <1>2, <1>3, <1>4, <1>5, <1>6, <1>7, <1>8
  DEF Next, CompileStep, TaskStep, vars, taskVars, StartCompile, CacheGet, CacheLoad,
      FindPersisted, FindNothing, CacheSet, ExpandNode, ExpandDone, PackNode,
      PackDone, CompileFails, Expire

\* An invalidated manifest is always audited, about to be, or its task ran out of
\* retries, for any number of tasks, retries and lost workers.
THEOREM InvalidationsAreFollowedUp == Spec => []InvalidationIsFollowedUp
<1>1. Init => InvalidationIsFollowedUp
  BY DEF Init, InvalidationIsFollowedUp
<1> QED BY <1>1, FollowedUpStep, Invariance, PTL DEF Spec

-----------------------------------------------------------------------------
(***************************************************************************)
(* The order of packing.  While a call expands, its list is the selected   *)
(* nodes followed by siblings, none twice; while it packs, its items are   *)
(* the nodes of an initial part of that list.                              *)
(***************************************************************************)
Keeps(its, sel) ==
    /\ \A a, b \in 1..Len(its) : its[a].node = its[b].node => a = b
    /\ \A a \in 1..MinOf(Len(its), Len(sel)) : its[a].node = sel[a]

Extends(list, sel) ==
    /\ Distinct(list)
    /\ Len(sel) <= Len(list)
    /\ \A a \in 1..Len(sel) : list[a] = sel[a]

PacksAlong(f) ==
    /\ Len(f.items) = f.k - 1
    /\ Len(f.items) <= Len(f.expanded)
    /\ \A a \in 1..Len(f.items) : f.items[a].node = f.expanded[a]

Ordered(f) ==
    /\ f.pc \in {"idle", "cacheGet", "cacheLoad", "find", "expand"} => f.items = <<>>
    /\ f.pc \in {"expand", "pack"} => Extends(f.expanded, Selected[f.req])
    /\ f.pc = "pack" => PacksAlong(f)
    /\ f.pc = "store" => Keeps(f.items, Selected[f.req])

OrderInv == PackedOnceSelectedFirst /\ \A t \in Threads : Ordered(frame[t])

\* Siblings that are not in a list yet can follow it.
LEMMA SiblingsFollow ==
    ASSUME NEW list \in Seq(Nodes), NEW more \in Seq(Nodes), NEW sel \in Seq(Nodes),
           Extends(list, sel), Distinct(more),
           \A i \in 1..Len(more) : more[i] \notin Elements(list)
    PROVE  Extends(list \o more, sel)
<1> DEFINE all == list \o more
<1>1. /\ Len(all) = Len(list) + Len(more)
      /\ \A i \in 1..Len(list) : all[i] = list[i]
      /\ \A i \in Len(list) + 1..Len(all) : all[i] = more[i - Len(list)]
  OBVIOUS
<1>2. Len(list) \in Nat /\ Len(more) \in Nat /\ Len(sel) \in Nat
  OBVIOUS
<1>3. Distinct(all)
  <2> SUFFICES ASSUME NEW i \in 1..Len(all), NEW j \in 1..Len(all), all[i] = all[j] PROVE i = j
    BY DEF Distinct
  <2>1. CASE i <= Len(list) /\ j <= Len(list)
    BY <1>1, <1>2, <2>1 DEF Extends, Distinct
  <2>2. CASE i > Len(list) /\ j > Len(list)
    <3>1. i - Len(list) \in 1..Len(more) /\ j - Len(list) \in 1..Len(more)
      BY <1>1, <1>2, <2>2
    <3>2. more[i - Len(list)] = more[j - Len(list)]
      BY <1>1, <1>2, <2>2
    <3>3. i - Len(list) = j - Len(list)
      BY <3>1, <3>2 DEF Distinct
    <3> QED BY <1>2, <3>3
  <2>3. CASE i <= Len(list) /\ j > Len(list)
    BY <1>1, <1>2, <2>3 DEF Elements
  <2>4. CASE i > Len(list) /\ j <= Len(list)
    BY <1>1, <1>2, <2>4 DEF Elements
  <2> QED BY <1>2, <2>1, <2>2, <2>3, <2>4
<1>4. Len(sel) <= Len(all) /\ \A a \in 1..Len(sel) : all[a] = sel[a]
  BY <1>1, <1>2 DEF Extends
<1> QED BY <1>3, <1>4 DEF Extends

\* A call that has packed along an ordered list has kept the order.
LEMMA PackedKeeps ==
    ASSUME NEW f \in Frame, Extends(f.expanded, Selected[f.req]), PacksAlong(f)
    PROVE  Keeps(f.items, Selected[f.req])
<1>1. Len(f.items) \in Nat /\ Len(f.expanded) \in Nat /\ Len(Selected[f.req]) \in Nat
  BY SelectedAssumption DEF Frame
<1> QED BY <1>1 DEF Keeps, Extends, PacksAlong, Distinct, MinOf

LEMMA NewCallOrdered ==
    /\ Ordered(NoCall)
    /\ \A q \in Queries, b \in Budgets : Ordered(Call("cacheGet", q, b))
BY CallType DEF Ordered, NoCall, Call

\* The step of the expansion loop.
LEMMA ExpandOrdered ==
    ASSUME IInv, NEW t \in Threads, Ordered(frame[t]), ExpandNode(t)
    PROVE  Ordered(frame'[t])
<1> DEFINE f == frame[t]
           sel == Selected[f.req]
<1>1. frame \in [Threads -> Frame] /\ f \in Frame
  BY DEF IInv, TypeOK
<1>2. f.pc = "expand" /\ Extends(f.expanded, sel) /\ f.items = <<>>
  BY DEF ExpandNode, At, Ordered
<1>3. sel \in Seq(Nodes) /\ f.expanded \in Seq(Nodes) /\ f.k \in Nat /\ f.k >= 1
  BY <1>1, SelectedAssumption DEF Frame
<1>4. f.k \in 1..Len(sel)
  BY <1>3 DEF ExpandNode
<1>5. PICK found \in {{}, SectionSiblings(sel[f.k], Elements(f.expanded))} :
          \E siblings \in Orderings(found) :
              frame' = [frame EXCEPT ![t] = [@ EXCEPT !.expanded = f.expanded \o siblings,
                                                     !.k = f.k + 1]]
  BY DEF ExpandNode
<1>6. PICK siblings \in Orderings(found) :
          frame' = [frame EXCEPT ![t] = [@ EXCEPT !.expanded = f.expanded \o siblings,
                                                 !.k = f.k + 1]]
  BY <1>5
<1>7. found \subseteq Nodes /\ \A n \in found : n \notin Elements(f.expanded)
  <2>1. sel[f.k] \in Nodes
    BY <1>3, <1>4
  <2> QED BY <2>1, SiblingsAreNodes DEF SectionSiblings
<1>8. siblings \in Seq(found) /\ Distinct(siblings)
  BY <1>7, OrderingIsSequence
<1>9. siblings \in Seq(Nodes) /\ \A i \in 1..Len(siblings) : siblings[i] \notin Elements(f.expanded)
  BY <1>7, <1>8
<1>10. Extends(f.expanded \o siblings, sel)
  BY <1>2, <1>3, <1>8, <1>9, SiblingsFollow
<1>11. frame'[t] = [f EXCEPT !.expanded = f.expanded \o siblings, !.k = f.k + 1]
  BY <1>1, <1>6
<1>12. /\ frame'[t].pc = "expand" /\ frame'[t].req = f.req /\ frame'[t].items = <<>>
       /\ frame'[t].expanded = f.expanded \o siblings
  BY <1>1, <1>2, <1>11 DEF Frame
<1> QED BY <1>10, <1>12 DEF Ordered

\* The step of the packing loop.
LEMMA PackOrdered ==
    ASSUME IInv, NEW t \in Threads, Ordered(frame[t]), PackNode(t)
    PROVE  Ordered(frame'[t])
<1> DEFINE f == frame[t]
           item == [node |-> f.expanded[f.k], tokens |-> PackedTokens(f.expanded[f.k], Remaining(t))]
           items == Append(f.items, item)
<1>1. frame \in [Threads -> Frame] /\ f \in Frame
  BY DEF IInv, TypeOK
<1>2. /\ f.pc = "pack" /\ f.k <= Len(f.expanded)
      /\ Extends(f.expanded, Selected[f.req]) /\ PacksAlong(f)
  BY DEF PackNode, At, Ordered
<1>3. /\ f.items \in Seq(Item) /\ Len(f.items) \in Nat /\ f.k \in Nat
      /\ f.k = Len(f.items) + 1
  BY <1>1, <1>2 DEF Frame, PacksAlong
<1>4. frame'[t].items = items
  BY <1>1 DEF PackNode, Frame
<1>5. /\ frame'[t].pc = "pack" /\ frame'[t].req = f.req
      /\ frame'[t].expanded = f.expanded /\ frame'[t].k = f.k + 1
  BY <1>1, <1>2 DEF PackNode, Frame
<1>6. item.node = f.expanded[f.k]
  OBVIOUS
<1>7. /\ Len(items) = f.k
      /\ \A a \in 1..f.k : items[a].node = f.expanded[a]
  <2> HIDE DEF item
  <2>1. /\ Len(items) = Len(f.items) + 1
        /\ \A a \in 1..Len(f.items) : items[a] = f.items[a]
        /\ items[Len(f.items) + 1] = item
    BY <1>3
  <2> QED BY <1>2, <1>3, <1>6, <2>1 DEF PacksAlong
<1>8. PacksAlong(frame'[t])
  <2> HIDE DEF item, items
  <2> DEFINE g == frame'[t]
  <2>1. g.items = items /\ g.expanded = f.expanded /\ g.k = f.k + 1
    BY <1>4, <1>5
  <2>2. Len(g.items) = g.k - 1 /\ Len(g.items) <= Len(g.expanded)
    BY <1>2, <1>3, <1>7, <2>1
  <2>3. \A a \in 1..Len(g.items) : g.items[a].node = g.expanded[a]
    BY <1>7, <2>1
  <2> QED BY <2>2, <2>3 DEF PacksAlong
<1> QED BY <1>2, <1>5, <1>8 DEF Ordered

LEMMA OrderStep == IInv /\ OrderInv /\ [Next]_vars => OrderInv'
<1> SUFFICES ASSUME IInv, OrderInv, [Next]_vars PROVE OrderInv'
  OBVIOUS
<1>0. frame \in [Threads -> Frame]
  BY DEF IInv, TypeOK
<1>1. PackedOnceSelectedFirst'
  <2>1. CASE manifests' = manifests
    BY <2>1 DEF OrderInv, PackedOnceSelectedFirst
  <2>2. ASSUME NEW t \in Threads, StoreManifest(t) PROVE PackedOnceSelectedFirst'
    <3>1. Keeps(Built(t).items, Selected[Built(t).hash])
      BY <2>2 DEF OrderInv, Ordered, StoreManifest, At, Built
    <3> QED
      BY <2>2, <3>1 DEF StoreManifest, OrderInv, PackedOnceSelectedFirst, Keeps
  <2>3. ASSUME NEW j \in Tasks, InvalidateRow(j) PROVE PackedOnceSelectedFirst'
    <3>1. \A i \in DOMAIN manifests :
             /\ manifests'[i].hash = manifests[i].hash
             /\ manifests'[i].items = manifests[i].items
      BY <2>3 DEF InvalidateRow, IInv, TypeOK, Manifest
    <3>2. DOMAIN manifests' = DOMAIN manifests
      BY <2>3 DEF InvalidateRow
    <3> QED BY <3>1, <3>2 DEF OrderInv, PackedOnceSelectedFirst
  <2> QED
    BY <2>1, <2>2, <2>3
    DEF Next, CompileStep, TaskStep, vars, taskVars, StartCompile, CacheGet, CacheLoad,
        FindPersisted, FindNothing, CacheSet, ExpandNode, ExpandDone, PackNode,
        PackDone, CompileFails, Expire, SendInvalidation, InvalidateMissing,
        DeleteKey, AuditInvalidation, TaskRaises, WorkerLost
<1>2. \A t \in Threads : Ordered(frame'[t])
  <2> DEFINE All == \A u \in Threads : Ordered(frame'[u])
  <2>0. \A u \in Threads : Ordered(frame[u])
    BY DEF OrderInv
  <2>1. CASE frame' = frame
    BY <2>0, <2>1
  <2>2. ASSUME NEW t \in Threads,
               \/ \E q \in Queries, b \in Budgets : StartCompile(t, q, b)
               \/ CompileStep(t) \/ CompileFails(t)
        PROVE  All
    <3>1. \A u \in Threads : u # t => frame'[u] = frame[u]
      BY <1>0, <2>2
      DEF StartCompile, CompileStep, CompileFails, CacheGet, CacheLoad, Return, FindPersisted,
          FindNothing, CacheSet, ExpandNode, ExpandDone, PackNode, PackDone, StoreManifest
    <3>2. Ordered(frame'[t])
      <4>0. frame[t] \in Frame /\ Ordered(frame[t])
        BY <1>0, <2>0
      <4>1. ASSUME NEW q \in Queries, NEW b \in Budgets, StartCompile(t, q, b)
            PROVE  Ordered(frame'[t])
        BY <1>0, <4>1, NewCallOrdered DEF StartCompile
      <4>2. CASE CacheGet(t) \/ FindPersisted(t)
        <5>1. /\ frame'[t].pc \in {"find", "cacheLoad", "fillCache"}
              /\ frame'[t].items = frame[t].items
              /\ frame[t].pc \in {"cacheGet", "find"}
          <6>1. CASE CacheGet(t)
            BY <1>0, <4>0, <6>1 DEF CacheGet, At, Frame
          <6>2. CASE FindPersisted(t)
            BY <1>0, <4>0, <6>2 DEF FindPersisted, At, Frame
          <6> QED BY <4>2, <6>1, <6>2
        <5> QED BY <4>0, <5>1 DEF Ordered
      <4>3. CASE CacheLoad(t) \/ CacheSet(t) \/ CompileFails(t)
        <5>1. \/ frame'[t] = NoCall
              \/ /\ frame[t].pc = "cacheLoad"
                 /\ frame'[t] = [frame[t] EXCEPT !.pc = "find"]
          <6>1. CASE CacheLoad(t)
            BY <1>0, <6>1 DEF CacheLoad, Return, At
          <6>2. CASE CacheSet(t) \/ CompileFails(t)
            BY <1>0, <6>2 DEF CacheSet, CompileFails, Return
          <6> QED BY <4>3, <6>1, <6>2
        <5>2. CASE frame'[t] = NoCall
          BY <5>2, NewCallOrdered
        <5>3. CASE frame[t].pc = "cacheLoad" /\ frame'[t] = [frame[t] EXCEPT !.pc = "find"]
          <6>1. frame'[t].pc = "find" /\ frame'[t].items = frame[t].items
            BY <4>0, <5>3 DEF Frame
          <6> QED BY <4>0, <5>3, <6>1 DEF Ordered
        <5> QED BY <5>1, <5>2, <5>3
      <4>4. CASE FindNothing(t)
        <5>1. /\ frame'[t].pc = "expand" /\ frame'[t].req = frame[t].req
              /\ frame'[t].items = <<>> /\ frame'[t].expanded = Selected[frame[t].req]
          BY <1>0, <4>0, <4>4 DEF FindNothing, At, Ordered, Frame
        <5>2. frame[t].req \in Queries
          BY <4>0 DEF Frame
        <5>3. Extends(Selected[frame[t].req], Selected[frame[t].req])
          BY <5>2, SelectedAssumption DEF Extends, Distinct
        <5> QED BY <5>1, <5>3 DEF Ordered
      <4>5. CASE ExpandNode(t)
        BY <4>0, <4>5, ExpandOrdered
      <4>6. CASE ExpandDone(t)
        <5>1. /\ frame'[t].pc = "pack" /\ frame'[t].req = frame[t].req /\ frame'[t].k = 1
              /\ frame'[t].items = <<>> /\ frame'[t].expanded = frame[t].expanded
              /\ frame[t].pc = "expand"
          BY <1>0, <4>0, <4>6 DEF ExpandDone, At, Ordered, Frame
        <5>2. Len(frame[t].expanded) \in Nat
          BY <4>0 DEF Frame
        <5> QED BY <4>0, <5>1, <5>2 DEF Ordered, PacksAlong
      <4>7. CASE PackNode(t)
        BY <4>0, <4>7, PackOrdered
      <4>8. CASE PackDone(t)
        <5>1. Keeps(frame[t].items, Selected[frame[t].req])
          BY <4>0, <4>8, PackedKeeps DEF PackDone, At, Ordered
        <5>2. /\ frame'[t].pc = "store" /\ frame'[t].req = frame[t].req
              /\ frame'[t].items = frame[t].items
          BY <1>0, <4>0, <4>8 DEF PackDone, Frame
        <5> QED BY <5>1, <5>2 DEF Ordered
      <4>9. CASE StoreManifest(t)
        BY <1>0, <4>0, <4>9 DEF StoreManifest, Ordered, Frame
      <4> QED
        BY <2>2, <4>1, <4>2, <4>3, <4>4, <4>5, <4>6, <4>7, <4>8, <4>9 DEF CompileStep
    <3> QED BY <2>0, <3>1, <3>2
  <2> QED
    BY <2>1, <2>2
    DEF Next, TaskStep, vars, Expire, SendInvalidation, InvalidateRow,
        InvalidateMissing, DeleteKey, AuditInvalidation, TaskRaises, WorkerLost,
        otherThanTasks
<1> QED BY <1>1, <1>2 DEF OrderInv

\* However siblings of several selected nodes overlap and in whatever order they
\* come, every stored manifest keeps the router's order and holds no node twice.
THEOREM PackingKeepsOrder == Spec => []PackedOnceSelectedFirst
<1>1. Init => OrderInv
  BY NewCallOrdered DEF Init, OrderInv, PackedOnceSelectedFirst
<1>2. OrderInv => PackedOnceSelectedFirst
  BY DEF OrderInv
<1> QED BY <1>1, <1>2, OrderStep, Invariance, PTL DEF Spec

-----------------------------------------------------------------------------
(***************************************************************************)
(* One active manifest for a hash.  A call that is compiling found none,   *)
(* and unless the hash was missed twice at once it is the only one.        *)
(***************************************************************************)
OneFor(q) ==
    /\ \A i, j \in ActiveFor(q) : i = j
    /\ \A t \in Threads : Compiling(t, q) => ActiveFor(q) = {}
    /\ \A t, u \in Threads : Compiling(t, q) /\ Compiling(u, q) => t = u
OneInv == \A q \in Queries \ missed : OneFor(q)

\* It stays so while no row becomes active and no call begins to compile.
LEMMA OneKept ==
    ASSUME OneInv, missed \subseteq missed',
           \A q \in Queries : ActiveFor(q)' \subseteq ActiveFor(q),
           \A t \in Threads, q \in Queries : Compiling(t, q)' => Compiling(t, q)
    PROVE  OneInv'
<1> SUFFICES ASSUME NEW q \in Queries, q \notin missed' PROVE OneFor(q)'
  BY DEF OneInv
<1>1. OneFor(q)
  BY DEF OneInv
<1>2. \A i, j \in ActiveFor(q)' : i = j
  BY <1>1 DEF OneFor
<1>3. \A t \in Threads : Compiling(t, q)' => ActiveFor(q)' = {}
  BY <1>1 DEF OneFor
<1>4. \A t, u \in Threads : Compiling(t, q)' /\ Compiling(u, q)' => t = u
  BY <1>1 DEF OneFor
<1> QED
  BY <1>2, <1>3, <1>4 DEF OneFor

\* A call that finds nothing is alone, or its hash is missed from now on.
LEMMA FindNothingKeepsOne ==
    ASSUME IInv, OneInv, NEW t \in Threads, FindNothing(t)
    PROVE  OneInv'
<1>0. frame \in [Threads -> Frame] /\ frame[t] \in Frame
  BY DEF IInv, TypeOK
<1> SUFFICES ASSUME NEW q \in Queries, q \notin missed' PROVE OneFor(q)'
  BY DEF OneInv
<1>1. q \notin missed /\ ActiveFor(q)' = ActiveFor(q) /\ OneFor(q)
  BY DEF FindNothing, ActiveFor, OneInv
<1>2. \A u \in Threads : u # t => frame'[u] = frame[u]
  BY <1>0 DEF FindNothing
<1>3. frame'[t].req = frame[t].req /\ ~Compiling(t, q)
  BY <1>0 DEF FindNothing, At, Frame, Compiling
<1>4. CASE frame[t].req = q
  <2>1. ActiveFor(q) = {}
    BY <1>4 DEF FindNothing
  <2>2. \A u \in Threads : ~Compiling(u, q)
    BY <1>4 DEF FindNothing
  <2>3. \A u \in Threads : Compiling(u, q)' => u = t
    BY <1>2, <2>2 DEF Compiling
  <2> QED
    BY <1>1, <2>1, <2>3 DEF OneFor
<1>5. CASE frame[t].req # q
  <2>1. \A u \in Threads : Compiling(u, q)' => Compiling(u, q)
    BY <1>2, <1>3, <1>5 DEF Compiling
  <2> QED
    BY <1>1, <2>1 DEF OneFor
<1> QED
  BY <1>4, <1>5

\* What a call stores is then the only active row of its hash.
LEMMA StoreKeepsOne ==
    ASSUME IInv, OneInv, NEW t \in Threads, StoreManifest(t)
    PROVE  OneInv'
<1>0. frame \in [Threads -> Frame] /\ frame[t] \in Frame
  BY DEF IInv, TypeOK
<1> SUFFICES ASSUME NEW q \in Queries, q \notin missed' PROVE OneFor(q)'
  BY DEF OneInv
<1>1. q \notin missed /\ OneFor(q)
  BY DEF StoreManifest, OneInv
<1>2. /\ frame[t].pc = "store" /\ frame'[t].pc = "setCache" /\ frame'[t].req = frame[t].req
      /\ \A u \in Threads : u # t => frame'[u] = frame[u]
  BY <1>0 DEF StoreManifest, At, Frame
<1>3. \A u \in Threads : Compiling(u, q)' => Compiling(u, q) /\ u # t
  BY <1>2 DEF Compiling
<1>4. frame[t].mid \notin DOMAIN manifests
  BY <1>2 DEF IInv, CallInv, BuildHoldsFreshId
<1>5. /\ DOMAIN manifests' = DOMAIN manifests \cup {frame[t].mid}
      /\ manifests'[frame[t].mid] = Built(t)
      /\ \A i \in DOMAIN manifests : manifests'[i] = manifests[i]
  BY <1>4 DEF StoreManifest
<1>6. CASE frame[t].req = q
  <2>1. Compiling(t, q)
    BY <1>2, <1>6 DEF Compiling
  <2>2. ActiveFor(q) = {} /\ \A u \in Threads : Compiling(u, q) => u = t
    BY <1>1, <2>1 DEF OneFor
  <2>3. ActiveFor(q)' \subseteq {frame[t].mid}
    BY <1>5, <2>2 DEF ActiveFor
  <2>4. \A u \in Threads : ~Compiling(u, q)'
    BY <1>3, <2>2
  <2> QED
    BY <2>3, <2>4 DEF OneFor
<1>7. CASE frame[t].req # q
  <2>1. Built(t).hash = frame[t].req
    BY DEF Built
  <2>2. ActiveFor(q)' = ActiveFor(q)
    BY <1>5, <1>7, <2>1 DEF ActiveFor
  <2> QED
    BY <1>1, <1>3, <2>2 DEF OneFor
<1> QED
  BY <1>6, <1>7

LEMMA OneStep == IInv /\ OneInv /\ [Next]_vars => OneInv'
<1> SUFFICES ASSUME IInv, OneInv, [Next]_vars PROVE OneInv'
  OBVIOUS
<1>0. frame \in [Threads -> Frame]
  BY DEF IInv, TypeOK
<1> DEFINE RowsQuiet == missed' = missed /\ \A q \in Queries : ActiveFor(q)' \subseteq ActiveFor(q)
           CallQuiet(u) == \A q \in Queries : Compiling(u, q)' => Compiling(u, q)
           CallsQuiet == \A u \in Threads : CallQuiet(u)
<1>1. CASE RowsQuiet /\ CallsQuiet
  BY <1>1, OneKept
<1>2. manifests' = manifests /\ missed' = missed => RowsQuiet
  BY DEF ActiveFor
<1>3. frame' = frame => CallsQuiet
  BY DEF Compiling
<1>4. ASSUME NEW t \in Threads, NEW q \in Queries, NEW b \in Budgets, StartCompile(t, q, b)
      PROVE  OneInv'
  <2>1. frame'[t].pc = "cacheGet" /\ \A u \in Threads : u # t => frame'[u] = frame[u]
    BY <1>0, <1>4 DEF StartCompile, Call
  <2>2. CallsQuiet
    BY <2>1 DEF Compiling
  <2> QED
    BY <1>1, <1>2, <1>4, <2>2 DEF StartCompile
<1>5. ASSUME NEW t \in Threads, CacheLoad(t) \/ CacheSet(t) \/ CompileFails(t)
      PROVE  OneInv'
  <2>1. /\ \A u \in Threads : u # t => frame'[u] = frame[u]
        /\ frame'[t].pc \in {"idle", "find"}
    <3>1. CASE CacheLoad(t)
      BY <1>0, <3>1, CallType DEF CacheLoad, Return, Frame
    <3>2. CASE CacheSet(t) \/ CompileFails(t)
      BY <1>0, <3>2, CallType DEF CacheSet, CompileFails, Return
    <3> QED
      BY <1>5, <3>1, <3>2
  <2>2. CallsQuiet
    BY <2>1 DEF Compiling
  <2>3. manifests' = manifests /\ missed' = missed
    BY <1>5 DEF CacheLoad, CacheSet, CompileFails
  <2> QED
    BY <1>1, <1>2, <2>2, <2>3
<1>6. ASSUME NEW t \in Threads, CacheGet(t) \/ FindPersisted(t) PROVE OneInv'
  <2>1. /\ \A u \in Threads : u # t => frame'[u] = frame[u]
        /\ frame'[t].pc \in {"find", "cacheLoad", "fillCache"}
    <3>1. CASE CacheGet(t)
      BY <1>0, <3>1 DEF CacheGet, Frame
    <3>2. CASE FindPersisted(t)
      BY <1>0, <3>2 DEF FindPersisted, Frame
    <3> QED
      BY <1>6, <3>1, <3>2
  <2>2. CallsQuiet
    BY <2>1 DEF Compiling
  <2> QED
    BY <1>1, <1>2, <1>6, <2>2 DEF CacheGet, FindPersisted
<1>7. ASSUME NEW t \in Threads,
             ExpandNode(t) \/ ExpandDone(t) \/ PackNode(t) \/ PackDone(t)
      PROVE  OneInv'
  <2>1. \A u \in Threads : u # t => frame'[u] = frame[u]
    BY <1>0, <1>7 DEF ExpandNode, ExpandDone, PackNode, PackDone
  <2>2. frame[t].pc \in {"expand", "pack"} /\ frame'[t].req = frame[t].req
    <3>1. CASE ExpandNode(t) \/ ExpandDone(t)
      BY <1>0, <3>1 DEF ExpandNode, ExpandDone, At, Frame
    <3>2. CASE PackNode(t) \/ PackDone(t)
      BY <1>0, <3>2 DEF PackNode, PackDone, At, Frame
    <3> QED
      BY <1>7, <3>1, <3>2
  <2>3. CallsQuiet
    BY <2>1, <2>2, SMTT(30) DEF Compiling
  <2>4. manifests' = manifests /\ missed' = missed
    BY <1>7 DEF ExpandNode, ExpandDone, PackNode, PackDone
  <2> QED
    BY <1>1, <1>2, <2>3, <2>4
<1>8. ASSUME NEW j \in Tasks, InvalidateRow(j) PROVE OneInv'
  <2>1. /\ DOMAIN manifests' = DOMAIN manifests
        /\ \A i \in DOMAIN manifests :
              /\ manifests'[i].hash = manifests[i].hash
              /\ manifests'[i].status = "active" => manifests[i].status = "active"
    BY <1>8 DEF InvalidateRow, IInv, TypeOK, Manifest
  <2>2. RowsQuiet
    BY <1>8, <2>1 DEF ActiveFor, InvalidateRow, otherThanTasks
  <2> QED
    BY <1>1, <1>3, <1>8, <2>2 DEF InvalidateRow, otherThanTasks
<1>9. CASE UNCHANGED <<manifests, frame, missed>>
  BY <1>1, <1>2, <1>3, <1>9
<1> QED
  BY <1>4, <1>5, <1>6, <1>7, <1>8, <1>9, FindNothingKeepsOne, StoreKeepsOne
  DEF Next, CompileStep, TaskStep, vars, Expire, SendInvalidation, InvalidateMissing,
      DeleteKey, AuditInvalidation, TaskRaises, WorkerLost, otherThanTasks

\* Whatever number of calls, failures and invalidations interleave, a hash has a second
\* active manifest only if two calls were compiling for it at the same time.
THEOREM OneActiveManifest == Spec => []OneActiveUnlessOverlap
<1>1. Init => OneInv
  BY CallType DEF Init, OneInv, OneFor, ActiveFor, Compiling
<1>2. OneInv => OneActiveUnlessOverlap
  <2> SUFFICES ASSUME OneInv, NEW q \in Queries, q \notin missed
               PROVE  /\ Cardinality(ActiveFor(q)) <= 1
                      /\ \A t \in Threads : Compiling(t, q) => ActiveFor(q) = {}
    BY DEF OneActiveUnlessOverlap
  <2>1. OneFor(q)
    BY DEF OneInv
  <2>2. CASE ActiveFor(q) = {}
    BY <2>1, <2>2, FS_EmptySet DEF OneFor
  <2>3. CASE ActiveFor(q) # {}
    <3>1. PICK i \in ActiveFor(q) : ActiveFor(q) = {i}
      BY <2>1, <2>3 DEF OneFor
    <3>2. Cardinality({i}) = 1
      BY FS_Singleton
    <3> QED
      BY <2>1, <3>1, <3>2 DEF OneFor
  <2> QED
    BY <2>2, <2>3
<1> QED BY <1>1, <1>2, OneStep, Invariance, PTL DEF Spec
==============================================================================
