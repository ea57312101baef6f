---------------------------- MODULE GatewayProofs ----------------------------
(***************************************************************************)
(* Proofs about Gateway, for any requests, clients, keys, limits, window,  *)
(* settings, queries and results of OPA.                                   *)
(***************************************************************************)
EXTENDS Gateway, Induction, TLAPS

LEMMA WindowTicks == Ticks(Window) \in Nat /\ Ticks(Window) > 0
BY LimitAssumption DEF Ticks

(***************************************************************************)
(* Type correctness.                                                       *)
(***************************************************************************)
LEMMA Limits == \A tier \in Tiers : Limit(tier) \in Nat
BY LimitAssumption DEF Limit, Tiers

LEMMA TierTypes == \A path \in Paths : Tier(path) \in Tiers
BY DEF Tier, Tiers, Paths

LEMMA KeyTypes ==
    ASSUME TypeOK, NEW r \in Requests
    PROVE  KeyOf(r) \in Tenants \cup Hosts
BY DEF TypeOK, KeyOf, Calls

LEMMA TenantTypes ==
    ASSUME NEW key
    PROVE  TenantOf(key) \in Tenants \cup {NoTenant}
<1> DEFINE valid == {i \in DOMAIN RawKeys : RawKeys[i][1] = key /\ RawKeys[i][2] # NoTenant}
<1>1. Len(RawKeys) \in Nat /\ DOMAIN RawKeys = 1..Len(RawKeys)
  BY NamesAssumption
<1>2. \A i \in DOMAIN RawKeys : RawKeys[i][2] \in Tenants \cup {NoTenant}
  BY NamesAssumption
<1>3. CASE valid = {}
  BY <1>3 DEF TenantOf
<1>4. CASE valid # {}
  <2>1. valid \in SUBSET (1..Len(RawKeys))
    BY <1>1
  <2>2. \E i \in valid : \A j \in valid : j <= i
    <3> HIDE DEF valid
    <3> QED
      BY <1>1, <1>4, <2>1, GreatestIndex
  <2>3. (CHOOSE i \in valid : \A j \in valid : j <= i) \in valid
    <3> HIDE DEF valid
    <3> QED
      BY <2>2
  <2>4. TenantOf(key) = RawKeys[CHOOSE i \in valid : \A j \in valid : j <= i][2]
    BY <1>4 DEF TenantOf
  <2> QED
    BY <1>2, <2>3, <2>4
<1> QED
  BY <1>3, <1>4

\* The oldest timestamp of a window is in it.
LEMMA OldestIsLeast ==
    ASSUME TypeOK, NEW W \in SUBSET Requests, W # {}
    PROVE  /\ Oldest(W) \in Nat
           /\ \E q \in W : call[q].at = Oldest(W)
           /\ \A q \in W : Oldest(W) <= call[q].at
<1> DEFINE S == {call[q].at : q \in W}
<1>1. S \in SUBSET Nat /\ S # {}
  BY DEF TypeOK, Calls
<1>2. \E t \in S : \A u \in S : t <= u
  <2> HIDE DEF S
  <2> QED
    BY <1>1, LeastMember
<1>3. \E t \in S : \A q \in W : t <= call[q].at
  BY <1>2
<1>4. Oldest(W) = CHOOSE t \in S : \A q \in W : t <= call[q].at
  BY DEF Oldest
<1>5. Oldest(W) \in S /\ \A q \in W : Oldest(W) <= call[q].at
  <2> HIDE DEF S
  <2> QED
    BY <1>3, <1>4
<1> QED
  BY <1>1, <1>5

LEMMA RetryTypes ==
    ASSUME TypeOK, NEW W \in SUBSET Requests
    PROVE  RetryAfter(W, now) \in Nat
<1>1. CASE W = {}
  BY <1>1 DEF RetryAfter
<1>2. CASE W # {}
  <2>1. Oldest(W) \in Nat /\ now \in Nat
    BY <1>2, OldestIsLeast DEF TypeOK
  <2>2. Ticks(Window) - (now - Oldest(W)) \in Int
    BY <2>1, WindowTicks
  <2>3. (Ticks(Window) - (now - Oldest(W))) \div TicksPerSecond \in Int
    BY <2>2, Division, LimitAssumption
  <2> QED
    BY <1>2, <2>3 DEF RetryAfter, Larger
<1> QED
  BY <1>1, <1>2

\* The three ways to decide a query give bundles.
LEMMA ClassTypes == \A topics : Classify(topics) \in Classes
BY DEF Classify, Classes, Topics

LEMMA InlineTypes == \A topics, mode : Inline(topics, mode) \in Bundles
BY ClassTypes DEF Inline, Bundles

LEMMA CombinedTypes ==
    ASSUME NEW topics, NEW mode, NEW fields
    PROVE  Combined(topics, mode, fields) \in Bundles
<1> DEFINE i == Inline(topics, mode)
           g == Rego(i.query_class)
<1>1. i \in Bundles /\ i.query_class \in Classes
  BY InlineTypes DEF Bundles
<1>2. g \in Bundles
  <2> HIDE DEF i
  <2> QED
    BY <1>1 DEF Rego, Bundles
<1>3. Combined(topics, mode, fields) = [f \in Fields |-> IF f \in fields THEN g[f] ELSE i[f]]
  BY DEF Combined
<1>4. [f \in Fields |-> IF f \in fields THEN g[f] ELSE i[f]] \in Bundles
  <2> HIDE DEF i, g
  <2> QED
    BY <1>1, <1>2 DEF Fields, Bundles
<1> QED
  BY <1>3, <1>4

\* A step of a request replaces its locals by well typed ones.
LEMMA CallWrites ==
    ASSUME TypeOK, NEW r \in Requests, NEW c \in Calls, call' = [call EXCEPT ![r] = c]
    PROVE  /\ call' \in [Requests -> Calls]
           /\ call'[r] = c
           /\ \A q \in Requests : q # r => call'[q] = call[q]
BY DEF TypeOK

\* What Reply leaves of a request.
LEMMA ReplyWrites ==
    ASSUME TypeOK, NEW r \in Requests, NEW code \in Replies, Reply(r, code)
    PROVE  \E c \in Calls :
               /\ c = [call[r] EXCEPT !.pc = "done", !.reply = code]
               /\ call' = [call EXCEPT ![r] = c]
<1>1. call[r] \in Calls
  BY DEF TypeOK
<1>2. [call[r] EXCEPT !.pc = "done", !.reply = code] \in Calls
  BY <1>1 DEF Calls, Steps
<1>3. call' = [call EXCEPT ![r] = [call[r] EXCEPT !.pc = "done", !.reply = code]]
  BY DEF Reply
<1> QED
  BY <1>2, <1>3

\* The decision on a query has the type of one.
LEMMA DecisionWrites ==
    ASSUME TypeOK, NEW r \in Requests, NEW outcome \in {"unused", "answered", "unreachable", "dropped"},
           NEW topics \in SUBSET Topics, NEW mode \in Modes, NEW bundle,
           \/ bundle = Inline(topics, mode)
           \/ \E fields : bundle = Combined(topics, mode, fields),
           Decided(r, outcome, topics, mode, bundle)
    PROVE  /\ policy' \in [Requests -> Decisions]
           /\ policy'[r] = [opa |-> outcome, topics |-> topics, mode |-> mode, bundle |-> bundle]
           /\ \A q \in Requests : q # r => policy'[q] = policy[q]
<1> DEFINE d == [opa |-> outcome, topics |-> topics, mode |-> mode, bundle |-> bundle]
<1>0. bundle \in Bundles
  BY InlineTypes, CombinedTypes
<1>1. d \in Decisions
  BY <1>0 DEF Decisions
<1>2. policy' = [policy EXCEPT ![r] = d]
  BY DEF Decided
<1>3. policy \in [Requests -> Decisions]
  BY DEF TypeOK
<1> HIDE DEF d
<1>4. /\ policy' \in [Requests -> Decisions]
      /\ policy'[r] = d
      /\ \A q \in Requests : q # r => policy'[q] = policy[q]
  BY <1>1, <1>2, <1>3
<1> QED
  BY <1>4 DEF d

\* The ways a query is evaluated have this in common.
LEMMA EvaluateWrites ==
    ASSUME TypeOK, NEW r \in Requests, Evaluate(r)
    PROVE  /\ IsQuery(r)
           /\ UNCHANGED <<settings, now, windows>>
           /\ policy' \in [Requests -> Decisions]
           /\ \E code \in {"200", "500"}, c \in Calls :
                  /\ c = [call[r] EXCEPT !.pc = "done", !.reply = code]
                  /\ call' = [call EXCEPT ![r] = c]
<1>1. PICK topics \in QueryTopics, mode \in Modes :
        \/ EvaluateInline(r, topics, mode)
        \/ \E fields \in OpaFields : OpaAnswers(r, topics, mode, fields)
        \/ OpaUnreachable(r, topics, mode)
        \/ OpaDrops(r, topics, mode)
  BY DEF Evaluate
<1>2. topics \in SUBSET Topics
  BY NamesAssumption
<1>3. \E code, outcome, bundle :
         /\ code \in {"200", "500"}
         /\ outcome \in {"unused", "answered", "unreachable", "dropped"}
         /\ IsQuery(r)
         /\ Reply(r, code)
         /\ \/ bundle = Inline(topics, mode)
            \/ \E fields : bundle = Combined(topics, mode, fields)
         /\ Decided(r, outcome, topics, mode, bundle)
  <2>1. CASE EvaluateInline(r, topics, mode)
    BY <2>1 DEF EvaluateInline
  <2>2. CASE \E fields \in OpaFields : OpaAnswers(r, topics, mode, fields)
    BY <2>2 DEF OpaAnswers
  <2>3. CASE OpaUnreachable(r, topics, mode)
    BY <2>3 DEF OpaUnreachable
  <2>4. CASE OpaDrops(r, topics, mode)
    BY <2>4 DEF OpaDrops
  <2> QED
    BY <1>1, <2>1, <2>2, <2>3, <2>4
<1>4. PICK code, outcome, bundle :
         /\ code \in {"200", "500"}
         /\ outcome \in {"unused", "answered", "unreachable", "dropped"}
         /\ IsQuery(r)
         /\ Reply(r, code)
         /\ \/ bundle = Inline(topics, mode)
            \/ \E fields : bundle = Combined(topics, mode, fields)
         /\ Decided(r, outcome, topics, mode, bundle)
  BY <1>3
<1>5. policy' \in [Requests -> Decisions]
  BY <1>2, <1>4, DecisionWrites
<1>6. code \in Replies
  BY <1>4 DEF Replies
<1>7. \E c \in Calls :
          /\ c = [call[r] EXCEPT !.pc = "done", !.reply = code]
          /\ call' = [call EXCEPT ![r] = c]
  BY <1>4, <1>6, ReplyWrites
<1>8. UNCHANGED <<settings, now, windows>>
  BY <1>4 DEF Reply
<1> QED
  BY <1>4, <1>5, <1>7, <1>8

LEMMA InitTypes == Init => TypeOK
<1> SUFFICES ASSUME Init PROVE TypeOK
  OBVIOUS
<1>1. PICK host \in [Requests -> Hosts] :
         call = [r \in Requests |->
                   [pc |-> "unsent", host |-> host[r], path |-> "/healthz",
                    tenant |-> NoTenant, key |-> host[r], at |-> 0, counted |-> FALSE,
                    told |-> 0, retryAfter |-> 0, reply |-> "none"]]
  BY DEF Init
<1>2. call \in [Requests -> Calls]
  BY <1>1 DEF Calls, Steps, Paths, Excluded, Replies
<1>3. policy \in [Requests -> Decisions]
  <2>1. policy = [r \in Requests |-> [opa |-> "none", topics |-> {}, mode |-> "auto",
                                      bundle |-> Inline({}, "auto")]]
    BY DEF Init
  <2>2. [opa |-> "none", topics |-> {}, mode |-> "auto", bundle |-> Inline({}, "auto")] \in Decisions
    BY InlineTypes DEF Decisions, Modes
  <2> QED
    BY <2>1, <2>2
<1> QED
  BY <1>2, <1>3 DEF Init, TypeOK

LEMMA NextTypes == TypeOK /\ [Next]_vars => TypeOK'
<1> SUFFICES ASSUME TypeOK, [Next]_vars
             PROVE  TypeOK'
  OBVIOUS
<1>1. CASE Tick
  BY <1>1 DEF Tick, TypeOK
<1>2. CASE UNCHANGED vars
  BY <1>2 DEF vars, TypeOK
<1>3. ASSUME NEW r \in Requests, NEW path \in Requested, PassLimiter(r, path)
      PROVE  TypeOK'
  <2> DEFINE c == [call[r] EXCEPT !.pc = "auth", !.path = path]
  <2>1. call[r] \in Calls /\ path \in Paths
    BY NamesAssumption DEF TypeOK
  <2>2. c \in Calls
    BY <2>1 DEF Calls, Steps
  <2>3. call' = [call EXCEPT ![r] = c] /\ UNCHANGED <<settings, now, windows, policy>>
    BY <1>3 DEF PassLimiter
  <2> HIDE DEF c
  <2> QED
    BY <2>2, <2>3, CallWrites DEF TypeOK
<1>4. ASSUME NEW r \in Requests, NEW path \in Requested, Admit(r, path)
      PROVE  TypeOK'
  <2> DEFINE c == [call[r] EXCEPT !.pc = "auth", !.path = path, !.key = KeyOf(r),
                                  !.at = now, !.counted = TRUE]
             b == <<KeyOf(r), Tier(path)>>
             W == Trimmed(windows[b], now) \cup {r}
  <2>1. call[r] \in Calls /\ path \in Paths /\ now \in Nat
    BY NamesAssumption DEF TypeOK
  <2>2. c \in Calls
    BY <2>1, KeyTypes DEF Calls, Steps
  <2>3. b \in Buckets
    BY <2>1, KeyTypes, TierTypes DEF Buckets
  <2>4. W \in SUBSET Requests
    BY <2>3 DEF TypeOK, Trimmed
  <2>5. /\ call' = [call EXCEPT ![r] = c]
        /\ windows' = [windows EXCEPT ![b] = W]
        /\ UNCHANGED <<settings, now, policy>>
    BY <1>4 DEF Admit
  <2> HIDE DEF c, b, W
  <2>6. windows' \in [Buckets -> SUBSET Requests]
    BY <2>3, <2>4, <2>5 DEF TypeOK
  <2> QED
    BY <2>2, <2>5, <2>6, CallWrites DEF TypeOK
<1>5. ASSUME NEW r \in Requests, NEW path \in Requested, Refuse(r, path)
      PROVE  TypeOK'
  <2> DEFINE c == [call[r] EXCEPT !.pc = "retry", !.path = path, !.key = KeyOf(r), !.at = now]
             b == <<KeyOf(r), Tier(path)>>
             W == Trimmed(windows[b], now)
  <2>1. call[r] \in Calls /\ path \in Paths /\ now \in Nat
    BY NamesAssumption DEF TypeOK
  <2>2. c \in Calls
    BY <2>1, KeyTypes DEF Calls, Steps
  <2>3. b \in Buckets
    BY <2>1, KeyTypes, TierTypes DEF Buckets
  <2>4. W \in SUBSET Requests
    BY <2>3 DEF TypeOK, Trimmed
  <2>5. /\ call' = [call EXCEPT ![r] = c]
        /\ windows' = [windows EXCEPT ![b] = W]
        /\ UNCHANGED <<settings, now, policy>>
    BY <1>5 DEF Refuse
  <2> HIDE DEF c, b, W
  <2>6. windows' \in [Buckets -> SUBSET Requests]
    BY <2>3, <2>4, <2>5 DEF TypeOK
  <2> QED
    BY <2>2, <2>5, <2>6, CallWrites DEF TypeOK
<1>6. ASSUME NEW r \in Requests, TellRetryAfter(r)
      PROVE  TypeOK'
  <2> DEFINE n == RetryAfter(windows[Bucket(r)], now)
             c == [call[r] EXCEPT !.pc = "done", !.reply = "429", !.told = now, !.retryAfter = n]
  <2>1. call[r] \in Calls /\ now \in Nat
    BY DEF TypeOK
  <2>2. Bucket(r) \in Buckets
    BY <2>1, TierTypes DEF Bucket, Buckets, Calls
  <2>3. n \in Nat
    BY <2>2, RetryTypes DEF TypeOK
  <2>4. call' = [call EXCEPT ![r] = c] /\ UNCHANGED <<settings, now, windows, policy>>
    BY <1>6 DEF TellRetryAfter
  <2> HIDE DEF n
  <2>5. c \in Calls
    BY <2>1, <2>3 DEF Calls, Steps, Replies
  <2> HIDE DEF c
  <2> QED
    BY <2>4, <2>5, CallWrites DEF TypeOK
<1>7. ASSUME NEW r \in Requests, SkipAuth(r)
      PROVE  TypeOK'
  <2> DEFINE c == [call[r] EXCEPT !.pc = "endpoint"]
  <2>1. call[r] \in Calls
    BY DEF TypeOK
  <2>2. c \in Calls
    BY <2>1 DEF Calls, Steps
  <2>3. call' = [call EXCEPT ![r] = c] /\ UNCHANGED <<settings, now, windows, policy>>
    BY <1>7 DEF SkipAuth
  <2> HIDE DEF c
  <2> QED
    BY <2>2, <2>3, CallWrites DEF TypeOK
<1>8. ASSUME NEW r \in Requests, Unauthorized(r)
      PROVE  TypeOK'
  <2> DEFINE c == [call[r] EXCEPT !.pc = "done", !.reply = "401"]
  <2>1. call[r] \in Calls
    BY DEF TypeOK
  <2>2. c \in Calls
    BY <2>1 DEF Calls, Steps, Replies
  <2>3. call' = [call EXCEPT ![r] = c] /\ UNCHANGED <<settings, now, windows, policy>>
    BY <1>8 DEF Unauthorized
  <2> HIDE DEF c
  <2> QED
    BY <2>2, <2>3, CallWrites DEF TypeOK
<1>9. ASSUME NEW r \in Requests, NEW key \in Keys, Authenticate(r, key)
      PROVE  TypeOK'
  <2> DEFINE c == [call[r] EXCEPT !.pc = "endpoint", !.tenant = TenantOf(key)]
  <2>1. call[r] \in Calls
    BY DEF TypeOK
  <2>2. c \in Calls
    BY <2>1, TenantTypes DEF Calls, Steps
  <2>3. call' = [call EXCEPT ![r] = c] /\ UNCHANGED <<settings, now, windows, policy>>
    BY <1>9 DEF Authenticate
  <2> HIDE DEF c
  <2> QED
    BY <2>2, <2>3, CallWrites DEF TypeOK
<1>10. ASSUME NEW r \in Requests, Serve(r) \/ OpaHealth(r)
       PROVE  TypeOK'
  <2>1. PICK code \in {"200", "500"} : Reply(r, code)
    BY <1>10 DEF Serve, OpaHealth
  <2>2. code \in Replies
    BY DEF Replies
  <2>3. UNCHANGED <<settings, now, windows, policy>>
    BY <1>10, <2>1 DEF Serve, OpaHealth, Reply
  <2> QED
    BY <2>1, <2>2, <2>3, ReplyWrites, CallWrites DEF TypeOK
<1>11. ASSUME NEW r \in Requests, Evaluate(r)
       PROVE  TypeOK'
  BY <1>11, EvaluateWrites, CallWrites DEF TypeOK
<1> QED
  BY <1>1, <1>2, <1>3, <1>4, <1>5, <1>6, <1>7, <1>8, <1>9, <1>10, <1>11 DEF Next

\* Every variable keeps its type, whatever OPA answers and whenever retry_after
\* reads the clock.
THEOREM TypeCorrect == Spec => []TypeOK
<1>1. Init => TypeOK
  BY InitTypes
<1>2. TypeOK /\ [Next]_vars => TypeOK'
  BY NextTypes
<1> QED
  BY <1>1, <1>2, PTL DEF Spec

(***************************************************************************)
(* The policy.  What a query was decided on comes from the inline policy   *)
(* or is combined with a result of OPA.                                    *)
(***************************************************************************)
DecisionsAreCombined ==
    \A r \in Requests :
        LET d == policy[r] IN
        \/ d.bundle = Inline(d.topics, d.mode)
        \/ \E fields : d.bundle = Combined(d.topics, d.mode, fields)

ClosedMeansRejected ==
    \A r \in Requests :
        LET d == policy[r] IN
        d.opa \in {"unreachable", "dropped"}
            => /\ call[r].pc = "done"
               /\ call[r].reply = "200"
                     => ~(settings.fail_closed /\ Classify(d.topics) \in Regulated)

\* The rules of policy.rego and PolicyEvaluator agree field by field, but for
\* phase_b_required, on which they agree where it counts.
LEMMA RegoAgreesWithInline ==
    ASSUME NEW topics, NEW mode \in Modes, NEW fields
    PROVE  LET i == Inline(topics, mode)
               c == Combined(topics, mode, fields)
           IN  /\ \A f \in Fields \ {"phase_b_required"} : c[f] = i[f]
               /\ Schedules(c, mode) = Schedules(i, mode)
<1> DEFINE i == Inline(topics, mode)
           g == Rego(i.query_class)
           c == Combined(topics, mode, fields)
           gated == Classify(topics) \in Regulated
<1>1. /\ i.query_class = Classify(topics)
      /\ i.tool_allowlist = {"git_local"}
      /\ i.redaction_rules = IF gated THEN {"mask_identifiers"} ELSE {}
      /\ i.max_tokens = IF gated THEN 12000 ELSE 16000
      /\ i.phase_b_required = (mode = "force" \/ (mode = "auto" /\ gated))
      /\ i.human_gate_required = gated
  BY DEF Inline
<1>2. /\ g.query_class = i.query_class
      /\ g.tool_allowlist = {"git_local"}
      /\ g.redaction_rules = IF gated THEN {"mask_identifiers"} ELSE {}
      /\ g.max_tokens = IF gated THEN 12000 ELSE 16000
      /\ g.phase_b_required = gated
      /\ g.human_gate_required = gated
  <2> HIDE DEF i
  <2> QED
    BY <1>1 DEF Rego, Regulated
<1>3. c = [f \in Fields |-> IF f \in fields THEN g[f] ELSE i[f]]
  BY DEF Combined
<1> HIDE DEF i, g, c
<1>4. \A f \in Fields \ {"phase_b_required"} : g[f] = i[f]
  BY <1>1, <1>2 DEF Fields
<1>5. \A f \in Fields \ {"phase_b_required"} : c[f] = i[f]
  BY <1>3, <1>4
<1>6. c.phase_b_required = gated \/ c.phase_b_required = i.phase_b_required
  BY <1>2, <1>3 DEF Fields
<1>7. Schedules(c, mode) = Schedules(i, mode)
  <2>1. CASE mode = "force"
    BY <2>1 DEF Schedules
  <2>2. CASE mode = "off"
    BY <2>2 DEF Schedules
  <2>3. CASE mode = "auto"
    <3>1. i.phase_b_required = gated
      BY <1>1, <2>3
    <3> QED
      BY <1>6, <3>1 DEF Schedules
  <2> QED
    BY <2>1, <2>2, <2>3 DEF Modes
<1> QED
  BY <1>5, <1>7 DEF i, c

LEMMA CombinedMeansAgreed ==
    TypeOK /\ DecisionsAreCombined /\ ClosedMeansRejected
        => OpaAgreesWithInline /\ GatedNeedsOpa
<1> SUFFICES ASSUME TypeOK, DecisionsAreCombined, ClosedMeansRejected, NEW r \in Requests
             PROVE  LET d == policy[r]
                        i == Inline(d.topics, d.mode)
                    IN  /\ \A f \in Fields \ {"phase_b_required"} : d.bundle[f] = i[f]
                        /\ Schedules(d.bundle, d.mode) = Schedules(i, d.mode)
                        /\ ( /\ call[r].reply = "200"
                             /\ d.opa \in {"unreachable", "dropped"}
                             /\ d.bundle.human_gate_required )
                              => ~settings.fail_closed
  BY DEF OpaAgreesWithInline, GatedNeedsOpa
<1> DEFINE d == policy[r]
           i == Inline(d.topics, d.mode)
<1>1. d.mode \in Modes
  BY DEF TypeOK, Decisions
<1>2. /\ \A f \in Fields \ {"phase_b_required"} : d.bundle[f] = i[f]
      /\ Schedules(d.bundle, d.mode) = Schedules(i, d.mode)
  <2>1. CASE d.bundle = i
    BY <2>1
  <2>2. CASE \E fields : d.bundle = Combined(d.topics, d.mode, fields)
    <3>1. PICK fields : d.bundle = Combined(d.topics, d.mode, fields)
      BY <2>2
    <3> QED
      BY <1>1, <3>1, RegoAgreesWithInline
  <2> QED
    BY <2>1, <2>2 DEF DecisionsAreCombined
<1>3. d.bundle.human_gate_required = (Classify(d.topics) \in Regulated)
  <2>1. d.bundle["human_gate_required"] = i["human_gate_required"]
    BY <1>2 DEF Fields
  <2>2. i.human_gate_required = (Classify(d.topics) \in Regulated)
    BY DEF Inline
  <2> QED
    BY <2>1, <2>2
<1> QED
  BY <1>2, <1>3 DEF ClosedMeansRejected

\* Apart from an evaluation no step touches a decision, and none touches what a
\* request that is done was told.
LEMMA OtherSteps ==
    ASSUME TypeOK, [Next]_vars, ~ \E r \in Requests : Evaluate(r)
    PROVE  /\ UNCHANGED <<settings, policy>>
           /\ \A q \in Requests : call[q].pc = "done" => call'[q] = call[q]
<1>1. CASE UNCHANGED vars
  BY <1>1 DEF vars
<1>2. CASE Tick
  BY <1>2 DEF Tick
<1>3. ASSUME NEW r \in Requests,
             \/ \E path \in Requested : PassLimiter(r, path) \/ Admit(r, path) \/ Refuse(r, path)
             \/ TellRetryAfter(r)
             \/ SkipAuth(r)
             \/ Unauthorized(r)
             \/ \E key \in Keys : Authenticate(r, key)
             \/ Serve(r)
             \/ OpaHealth(r)
      PROVE  /\ UNCHANGED <<settings, policy>>
             /\ call[r].pc # "done"
             /\ \A q \in Requests : q # r => call'[q] = call[q]
  <2>1. CASE \E path \in Requested : PassLimiter(r, path) \/ Admit(r, path) \/ Refuse(r, path)
    BY <2>1 DEF PassLimiter, Admit, Refuse, IsLimited, TypeOK
  <2>2. CASE TellRetryAfter(r)
    BY <2>2 DEF TellRetryAfter, TypeOK
  <2>3. CASE SkipAuth(r) \/ Unauthorized(r) \/ \E key \in Keys : Authenticate(r, key)
    BY <2>3 DEF SkipAuth, Unauthorized, Authenticate, TypeOK
  <2>4. CASE Serve(r) \/ OpaHealth(r)
    BY <2>4 DEF Serve, OpaHealth, Reply, TypeOK
  <2> QED
    BY <1>3, <2>1, <2>2, <2>3, <2>4
<1>4. CASE \E r \in Requests :
             \/ \E path \in Requested : PassLimiter(r, path) \/ Admit(r, path) \/ Refuse(r, path)
             \/ TellRetryAfter(r)
             \/ SkipAuth(r)
             \/ Unauthorized(r)
             \/ \E key \in Keys : Authenticate(r, key)
             \/ Serve(r)
             \/ OpaHealth(r)
  BY <1>3, <1>4
<1> QED
  BY <1>1, <1>2, <1>4 DEF Next

LEMMA NextDecisions ==
    TypeOK /\ DecisionsAreCombined /\ ClosedMeansRejected /\ [Next]_vars
        => DecisionsAreCombined' /\ ClosedMeansRejected'
<1> SUFFICES ASSUME TypeOK, DecisionsAreCombined, ClosedMeansRejected, [Next]_vars
             PROVE  DecisionsAreCombined' /\ ClosedMeansRejected'
  OBVIOUS
<1>1. CASE ~ \E r \in Requests : Evaluate(r)
  <2>1. /\ UNCHANGED <<settings, policy>>
        /\ \A q \in Requests : call[q].pc = "done" => call'[q] = call[q]
    BY <1>1, OtherSteps
  <2>2. DecisionsAreCombined'
    BY <2>1 DEF DecisionsAreCombined
  <2>3. ClosedMeansRejected'
    BY <2>1 DEF ClosedMeansRejected
  <2> QED
    BY <2>2, <2>3
<1>2. ASSUME NEW r \in Requests, Evaluate(r)
      PROVE  DecisionsAreCombined' /\ ClosedMeansRejected'
  <2>1. PICK topics \in QueryTopics, mode \in Modes :
          \/ EvaluateInline(r, topics, mode)
          \/ \E fields \in OpaFields : OpaAnswers(r, topics, mode, fields)
          \/ OpaUnreachable(r, topics, mode)
          \/ OpaDrops(r, topics, mode)
    BY <1>2 DEF Evaluate
  <2>2. topics \in SUBSET Topics
    BY NamesAssumption
  <2>3. \E code, outcome, bundle :
           /\ code \in {"200", "500"}
           /\ outcome \in {"unused", "answered", "unreachable", "dropped"}
           /\ Reply(r, code)
           /\ \/ bundle = Inline(topics, mode)
              \/ \E fields : bundle = Combined(topics, mode, fields)
           /\ Decided(r, outcome, topics, mode, bundle)
           /\ outcome \in {"unreachable", "dropped"} /\ code = "200"
                 => ~(settings.fail_closed /\ Classify(topics) \in Regulated)
    <3>1. CASE EvaluateInline(r, topics, mode)
      BY <3>1 DEF EvaluateInline
    <3>2. CASE \E fields \in OpaFields : OpaAnswers(r, topics, mode, fields)
      BY <3>2 DEF OpaAnswers
    <3>3. CASE OpaUnreachable(r, topics, mode)
      BY <3>3 DEF OpaUnreachable, FailsClosed
    <3>4. CASE OpaDrops(r, topics, mode)
      BY <3>4 DEF OpaDrops
    <3> QED
      BY <2>1, <3>1, <3>2, <3>3, <3>4
  <2>4. PICK code, outcome, bundle :
           /\ code \in {"200", "500"}
           /\ outcome \in {"unused", "answered", "unreachable", "dropped"}
           /\ Reply(r, code)
           /\ \/ bundle = Inline(topics, mode)
              \/ \E fields : bundle = Combined(topics, mode, fields)
           /\ Decided(r, outcome, topics, mode, bundle)
           /\ outcome \in {"unreachable", "dropped"} /\ code = "200"
                 => ~(settings.fail_closed /\ Classify(topics) \in Regulated)
    BY <2>3
  <2>5. /\ policy'[r] = [opa |-> outcome, topics |-> topics, mode |-> mode, bundle |-> bundle]
        /\ \A q \in Requests : q # r => policy'[q] = policy[q]
    BY <2>2, <2>4, DecisionWrites
  <2>6. /\ call'[r].pc = "done" /\ call'[r].reply = code
        /\ \A q \in Requests : q # r => call'[q] = call[q]
        /\ settings' = settings
    BY <2>4 DEF Reply, TypeOK, Calls
  <2>7. DecisionsAreCombined'
    <3> SUFFICES ASSUME NEW q \in Requests
                 PROVE  LET d == policy'[q] IN
                        \/ d.bundle = Inline(d.topics, d.mode)
                        \/ \E fields : d.bundle = Combined(d.topics, d.mode, fields)
      BY DEF DecisionsAreCombined
    <3>1. CASE q = r
      BY <2>4, <2>5, <3>1
    <3>2. CASE q # r
      BY <2>5, <3>2 DEF DecisionsAreCombined
    <3> QED
      BY <3>1, <3>2
  <2>8. ClosedMeansRejected'
    BY <2>4, <2>5, <2>6 DEF ClosedMeansRejected
  <2> QED
    BY <2>7, <2>8
<1> QED
  BY <1>1, <1>2

LEMMA InitDecisions == Init => DecisionsAreCombined /\ ClosedMeansRejected
<1> SUFFICES ASSUME Init PROVE DecisionsAreCombined /\ ClosedMeansRejected
  OBVIOUS
<1>1. \A r \in Requests :
        policy[r] = [opa |-> "none", topics |-> {}, mode |-> "auto", bundle |-> Inline({}, "auto")]
  BY DEF Init
<1> QED
  BY <1>1 DEF DecisionsAreCombined, ClosedMeansRejected

\* Whether OPA answers, and with which part of its rules, changes nothing a served
\* query is held to, whatever it names and whatever its phase_b_mode.
THEOREM OpaChangesNothing == Spec => []OpaAgreesWithInline
<1>1. Init => TypeOK /\ DecisionsAreCombined /\ ClosedMeansRejected
  BY InitTypes, InitDecisions
<1>2. TypeOK /\ DecisionsAreCombined /\ ClosedMeansRejected /\ [Next]_vars
        => TypeOK' /\ DecisionsAreCombined' /\ ClosedMeansRejected'
  BY NextTypes, NextDecisions
<1>3. TypeOK /\ DecisionsAreCombined /\ ClosedMeansRejected => OpaAgreesWithInline
  BY CombinedMeansAgreed
<1> QED
  BY <1>1, <1>2, <1>3, PTL DEF Spec

\* With fail_closed no query that needs a human gate is served without OPA.
THEOREM FailClosedHolds == Spec => []GatedNeedsOpa
<1>1. Init => TypeOK /\ DecisionsAreCombined /\ ClosedMeansRejected
  BY InitTypes, InitDecisions
<1>2. TypeOK /\ DecisionsAreCombined /\ ClosedMeansRejected /\ [Next]_vars
        => TypeOK' /\ DecisionsAreCombined' /\ ClosedMeansRejected'
  BY NextTypes, NextDecisions
<1>3. TypeOK /\ DecisionsAreCombined /\ ClosedMeansRejected => GatedNeedsOpa
  BY CombinedMeansAgreed
<1> QED
  BY <1>1, <1>2, <1>3, PTL DEF Spec

\* A served query is held to the policy, however its decision was reached.
THEOREM PolicyHolds == Spec => []HeldToPolicy
<1>1. OpaAgreesWithInline /\ GatedNeedsOpa => HeldToPolicy
  BY DEF HeldToPolicy
<1> QED
  BY <1>1, OpaChangesNothing, FailClosedHolds, PTL

(***************************************************************************)
(* The rate limiter.                                                       *)
(***************************************************************************)

\* Only a request that was admitted is counted; a refused one has left or is the
\* one the event loop is busy with; admissions lie in the past.
Progress ==
    \A r \in Requests :
        /\ call[r].pc \in {"unsent", "retry"} \/ call[r].reply = "429" => ~call[r].counted
        /\ call[r].reply # "none" <=> call[r].pc = "done"
        /\ call[r].at <= now
        /\ call[r].pc = "retry" => \A q \in Requests : call[q].pc = "retry" => q = r

\* A window lists admitted requests of its bucket, and all that are recent.
WindowsListRecent ==
    /\ \A b \in Buckets : \A q \in windows[b] : call[q].counted /\ Bucket(q) = b
    /\ \A q \in Requests :
         call[q].counted /\ call[q].at > now - Ticks(Window) => q \in windows[Bucket(q)]
    /\ \A r \in Requests :
         call[r].pc = "retry" => windows[Bucket(r)] = CountedIn(Bucket(r), call[r].at)

LimiterInv ==
    /\ TypeOK
    /\ Progress
    /\ WindowsListRecent
    /\ WindowHolds
    /\ RefusedWhenFull
    /\ RetryAfterIsClose

LEMMA BucketTypes ==
    ASSUME TypeOK, NEW r \in Requests
    PROVE  Bucket(r) \in Buckets
BY TierTypes DEF TypeOK, Calls, Bucket, Buckets

\* Sets of counted requests are finite.
LEMMA CountedFinite ==
    ASSUME NEW S \in SUBSET Requests
    PROVE  /\ IsFiniteSet(S)
           /\ Cardinality(S) \in Nat
           /\ \A T \in SUBSET S : Cardinality(T) <= Cardinality(S)
           /\ \A T \in SUBSET S : Cardinality(T) \in Nat
BY NamesAssumption, FS_Subset, FS_CardinalityType

\* A recent request is listed, so trimming leaves exactly those that count now.
LEMMA TrimmedIsCounted ==
    ASSUME TypeOK, Progress, WindowsListRecent, NEW b \in Buckets
    PROVE  Trimmed(windows[b], now) = CountedIn(b, now)
<1>1. windows[b] \in SUBSET Requests
  BY DEF TypeOK
<1>2. \A q \in Trimmed(windows[b], now) : q \in CountedIn(b, now)
  BY <1>1 DEF Trimmed, CountedIn, WindowsListRecent, Progress
<1>3. \A q \in CountedIn(b, now) : q \in Trimmed(windows[b], now)
  BY DEF Trimmed, CountedIn, WindowsListRecent
<1> QED
  BY <1>2, <1>3

\* A step that admits nobody leaves what is counted as it was.
LEMMA CountedStays ==
    ASSUME \A q \in Requests :
               /\ call'[q].counted = call[q].counted
               /\ call[q].counted => /\ call'[q].at = call[q].at
                                     /\ Bucket(q)' = Bucket(q)
    PROVE  \A b, time : CountedIn(b, time)' = CountedIn(b, time)
<1> SUFFICES ASSUME NEW b, NEW time
             PROVE  CountedIn(b, time)' = CountedIn(b, time)
  OBVIOUS
<1>1. \A q \in Requests :
        ( /\ call'[q].counted
          /\ Bucket(q)' = b
          /\ call'[q].at <= time
          /\ call'[q].at > time - Ticks(Window) )
        <=>
        ( /\ call[q].counted
          /\ Bucket(q) = b
          /\ call[q].at <= time
          /\ call[q].at > time - Ticks(Window) )
  OBVIOUS
<1> QED
  BY <1>1 DEF CountedIn

\* Time passing.
LEMMA TickKeeps ==
    ASSUME LimiterInv, TypeOK', Tick
    PROVE  LimiterInv'
<1>1. now \in Nat /\ now' = now + 1 /\ UNCHANGED <<windows, call>>
  BY DEF LimiterInv, TypeOK, Tick
<1>2. \A q \in Requests : call[q].at \in Nat
  BY DEF LimiterInv, TypeOK, Calls
<1>3. /\ \A b, time : CountedIn(b, time)' = CountedIn(b, time)
      /\ \A q \in Requests : Bucket(q)' = Bucket(q)
  BY <1>1, CountedStays DEF Bucket
<1>4. Progress'
  BY <1>1, <1>2 DEF LimiterInv, Progress
<1>5. WindowsListRecent'
  <2>1. \A b \in Buckets : \A q \in windows'[b] : call'[q].counted /\ Bucket(q)' = b
    BY <1>1, <1>3 DEF LimiterInv, WindowsListRecent, Bucket
  <2>2. \A q \in Requests :
          call'[q].counted /\ call'[q].at > now' - Ticks(Window) => q \in windows'[Bucket(q)']
    BY <1>1, <1>2, <1>3, WindowTicks DEF LimiterInv, WindowsListRecent
  <2>3. (\A r \in Requests :
           call[r].pc = "retry" => windows[Bucket(r)] = CountedIn(Bucket(r), call[r].at))'
    BY <1>1, <1>3 DEF LimiterInv, WindowsListRecent
  <2> QED
    BY <2>1, <2>2, <2>3 DEF WindowsListRecent
<1>6. WindowHolds'
  <2> SUFFICES ASSUME NEW b \in Buckets, NEW time \in 0..now'
               PROVE  Cardinality(CountedIn(b, time)) <= Limit(b[2])
    BY <1>1, <1>3 DEF WindowHolds
  <2>1. CASE time \in 0..now
    BY <2>1 DEF LimiterInv, WindowHolds
  <2>2. CASE time = now + 1
    <3>1. CountedIn(b, time) \in SUBSET CountedIn(b, now)
      BY <1>1, <1>2, <2>2, WindowTicks DEF CountedIn, LimiterInv, Progress
    <3>2. CountedIn(b, now) \in SUBSET Requests
      BY DEF CountedIn
    <3>3. /\ Cardinality(CountedIn(b, time)) <= Cardinality(CountedIn(b, now))
          /\ Cardinality(CountedIn(b, time)) \in Nat
          /\ Cardinality(CountedIn(b, now)) \in Nat
      BY <3>1, <3>2, CountedFinite
    <3>4. Cardinality(CountedIn(b, now)) <= Limit(b[2])
      BY <1>1 DEF LimiterInv, WindowHolds
    <3>5. Limit(b[2]) \in Nat
      BY Limits DEF Buckets
    <3> QED
      BY <3>3, <3>4, <3>5
  <2> QED
    BY <1>1, <2>1, <2>2
<1>7. RefusedWhenFull'
  BY <1>1, <1>3 DEF LimiterInv, RefusedWhenFull
<1>8. RetryAfterIsClose'
  BY <1>1, <1>3 DEF LimiterInv, RetryAfterIsClose
<1> QED
  BY <1>4, <1>5, <1>6, <1>7, <1>8 DEF LimiterInv

\* The header is within a second of the moment the first place of W is freed.
Close(r) ==
    LET taken == CountedIn(Bucket(r), call[r].at)
        free(time) == \E q \in taken : call[q].at + Ticks(Window) <= time
    IN  taken # {}
            => /\ free(call[r].told + Ticks(call[r].retryAfter + 1))
               /\ call[r].retryAfter > 1
                     => ~free(call[r].told + Ticks(call[r].retryAfter) - 1)

LEMMA CloseMeansClose ==
    RetryAfterIsClose <=> \A r \in Requests : call[r].reply = "429" => Close(r)
BY DEF RetryAfterIsClose, Close

LEMMA TicksGrow ==
    ASSUME NEW m \in Int, NEW n \in Int, m <= n
    PROVE  /\ Ticks(m) \in Int /\ Ticks(n) \in Int
           /\ Ticks(m) <= Ticks(n)
           /\ Ticks(m + 1) = Ticks(m) + TicksPerSecond
<1>1. PICK d \in Nat \ {0} : d = TicksPerSecond
  BY LimitAssumption
<1>2. m * d <= n * d
  BY <1>1
<1>3. (m + 1) * d = m * d + d
  BY <1>1
<1> QED
  BY <1>1, <1>2, <1>3 DEF Ticks

LEMMA RetryAfterBounds ==
    ASSUME TypeOK, NEW W \in SUBSET Requests, W # {}
    PROVE  LET n == RetryAfter(W, now) IN
           /\ \E q \in W : call[q].at + Ticks(Window) <= now + Ticks(n + 1)
           /\ n > 1 => \A q \in W : ~ (call[q].at + Ticks(Window) <= now + Ticks(n) - 1)
<1> DEFINE o == Oldest(W)
           a == Ticks(Window) - (now - o)
           k == a \div TicksPerSecond
           n == RetryAfter(W, now)
<1>1. /\ o \in Nat
      /\ \E q \in W : call[q].at = o
      /\ \A q \in W : o <= call[q].at
  BY OldestIsLeast
<1>2. now \in Nat /\ Ticks(Window) \in Nat /\ TicksPerSecond \in Nat \ {0}
  BY WindowTicks, LimitAssumption DEF TypeOK
<1>3. \A q \in W : call[q].at \in Nat
  BY DEF TypeOK, Calls
<1>4. a \in Int
  BY <1>1, <1>2
<1>5. n = IF 1 > k THEN 1 ELSE k
  BY DEF RetryAfter, Larger
<1> HIDE DEF n, o
<1>6. /\ k \in Int
      /\ Ticks(k) <= a
      /\ a < Ticks(k) + TicksPerSecond
  <2> HIDE DEF a
  <2> QED
    BY <1>2, <1>4, Division DEF Ticks
<1>7. now + a = o + Ticks(Window)
  BY <1>1, <1>2
<1> HIDE DEF a, k
<1>8. n \in Int /\ k <= n /\ (n > 1 => n = k)
  BY <1>5, <1>6
<1>9. a <= Ticks(n + 1) /\ Ticks(n + 1) \in Int
  <2>1. Ticks(k + 1) = Ticks(k) + TicksPerSecond /\ Ticks(k) \in Int
    BY <1>6, TicksGrow
  <2>2. Ticks(k + 1) <= Ticks(n + 1) /\ Ticks(k + 1) \in Int /\ Ticks(n + 1) \in Int
    BY <1>6, <1>8, TicksGrow
  <2> QED
    BY <1>2, <1>4, <1>6, <2>1, <2>2
<1>10. \E q \in W : call[q].at + Ticks(Window) <= now + Ticks(n + 1)
  BY <1>1, <1>2, <1>4, <1>7, <1>9
<1>11. ASSUME n > 1, NEW q \in W
       PROVE  ~ (call[q].at + Ticks(Window) <= now + Ticks(n) - 1)
  <2>1. Ticks(n) <= a /\ Ticks(n) \in Int
    BY <1>6, <1>8, <1>11, TicksGrow
  <2>2. call[q].at \in Nat /\ o <= call[q].at
    BY <1>1, <1>3
  <2> QED
    BY <1>1, <1>2, <1>4, <1>7, <2>1, <2>2
<1> QED
  BY <1>10, <1>11 DEF n

\* A step of a request that neither reaches is_allowed nor takes time.
LEMMA QuietKeeps ==
    ASSUME LimiterInv, TypeOK', NEW r \in Requests,
           UNCHANGED <<now, windows>>,
           \A q \in Requests : q # r => call'[q] = call[q],
           call'[r].counted = call[r].counted,
           call'[r].at = call[r].at,
           call'[r].key = call[r].key,
           call[r].pc = "unsent" \/ call'[r].path = call[r].path,
           call'[r].pc \in {"auth", "endpoint", "done"},
           call'[r].pc = "done" <=> call'[r].reply # "none",
           call'[r].reply = "429" => call[r].pc = "retry" /\ Close(r)'
    PROVE  LimiterInv'
<1>1. TypeOK /\ Progress /\ WindowsListRecent /\ WindowHolds /\ RefusedWhenFull
  BY DEF LimiterInv
<1>2. \A q \in Requests :
        /\ call'[q].counted = call[q].counted
        /\ call'[q].at = call[q].at
        /\ call[q].pc # "unsent" => Bucket(q)' = Bucket(q) /\ call'[q].path = call[q].path
        /\ call[q].counted => call[q].pc # "unsent"
  BY <1>1 DEF Bucket, Progress
<1>3. \A b, time : CountedIn(b, time)' = CountedIn(b, time)
  BY <1>2, CountedStays
<1>4. \A q \in Requests : call'[q].pc = "retry" => q # r /\ call[q].pc = "retry"
  OBVIOUS
<1>5. Progress'
  BY <1>1, <1>4 DEF Progress
<1>6. WindowsListRecent'
  <2>1. \A b \in Buckets : \A q \in windows'[b] : call'[q].counted /\ Bucket(q)' = b
    <3> SUFFICES ASSUME NEW b \in Buckets, NEW q \in windows[b]
                 PROVE  call'[q].counted /\ Bucket(q)' = b
      OBVIOUS
    <3>1. q \in Requests
      BY <1>1 DEF TypeOK
    <3>2. call[q].counted /\ Bucket(q) = b
      BY <1>1 DEF WindowsListRecent
    <3> QED
      BY <1>2, <3>1, <3>2
  <2>2. (\A q \in Requests :
           call[q].counted /\ call[q].at > now - Ticks(Window) => q \in windows[Bucket(q)])'
    BY <1>1, <1>2 DEF WindowsListRecent
  <2>3. (\A q \in Requests :
           call[q].pc = "retry" => windows[Bucket(q)] = CountedIn(Bucket(q), call[q].at))'
    <3> SUFFICES ASSUME NEW q \in Requests, call'[q].pc = "retry"
                 PROVE  (windows[Bucket(q)] = CountedIn(Bucket(q), call[q].at))'
      OBVIOUS
    <3>1. call[q].pc = "retry" /\ Bucket(q)' = Bucket(q) /\ call'[q].at = call[q].at
      BY <1>2, <1>4
    <3>2. windows[Bucket(q)] = CountedIn(Bucket(q), call[q].at)
      BY <1>1, <3>1 DEF WindowsListRecent
    <3> QED
      BY <1>3, <3>1, <3>2
  <2> QED
    BY <2>1, <2>2, <2>3 DEF WindowsListRecent
<1>7. WindowHolds'
  BY <1>1, <1>3 DEF WindowHolds
<1>8. \A q \in Requests :
        call'[q].pc = "retry" \/ call'[q].reply = "429"
          => /\ call[q].pc = "retry" \/ call[q].reply = "429"
             /\ Bucket(q)' = Bucket(q)
             /\ call'[q].path = call[q].path
  <2> SUFFICES ASSUME NEW q \in Requests, call'[q].pc = "retry" \/ call'[q].reply = "429"
               PROVE  /\ call[q].pc = "retry" \/ call[q].reply = "429"
                      /\ Bucket(q)' = Bucket(q)
                      /\ call'[q].path = call[q].path
    OBVIOUS
  <2>1. call[q].pc = "retry" \/ call[q].reply = "429"
    OBVIOUS
  <2>2. call[q].pc # "unsent"
    BY <1>1, <2>1 DEF Progress
  <2> QED
    BY <1>2, <2>1, <2>2
<1>9. RefusedWhenFull'
  <2> SUFFICES ASSUME NEW q \in Requests, call'[q].pc = "retry" \/ call'[q].reply = "429"
               PROVE  (Cardinality(CountedIn(Bucket(q), call[q].at)) = Limit(Tier(call[q].path)))'
    BY DEF RefusedWhenFull
  <2>1. Cardinality(CountedIn(Bucket(q), call[q].at)) = Limit(Tier(call[q].path))
    BY <1>1, <1>8 DEF RefusedWhenFull
  <2>2. CountedIn(Bucket(q), call[q].at)' = CountedIn(Bucket(q), call[q].at)
    BY <1>2, <1>3, <1>8
  <2> QED
    BY <1>8, <2>1, <2>2
<1>10. RetryAfterIsClose'
  <2> SUFFICES ASSUME NEW q \in Requests, call'[q].reply = "429"
               PROVE  Close(q)'
    BY DEF RetryAfterIsClose, Close
  <2>1. CASE q = r
    BY <2>1
  <2>2. CASE q # r
    <3>1. Close(q)
      BY <2>2, CloseMeansClose DEF LimiterInv
    <3>2. CountedIn(Bucket(q), call[q].at)' = CountedIn(Bucket(q), call[q].at)
      BY <1>2, <1>3, <1>8
    <3>3. \A x \in CountedIn(Bucket(q), call[q].at) : call'[x].at = call[x].at
      BY <1>2 DEF CountedIn
    <3> QED
      BY <2>2, <3>1, <3>2, <3>3 DEF Close
  <2> QED
    BY <2>1, <2>2
<1> QED
  BY <1>5, <1>6, <1>7, <1>9, <1>10 DEF LimiterInv

\* What a request gets that is limited.
LEMMA LimitedBucket ==
    ASSUME LimiterInv, NEW r \in Requests, NEW path \in Requested, IsLimited(r, path)
    PROVE  /\ <<KeyOf(r), Tier(path)>> \in Buckets
           /\ ~call[r].counted /\ call[r].reply = "none"
           /\ \A q \in Requests : call[q].pc # "retry"
           /\ Limit(Tier(path)) \in Nat
           /\ Trimmed(windows[<<KeyOf(r), Tier(path)>>], now)
                = CountedIn(<<KeyOf(r), Tier(path)>>, now)
<1>1. path \in Paths
  BY NamesAssumption
<1>2. KeyOf(r) \in Tenants \cup Hosts
  BY DEF LimiterInv, TypeOK, Calls, KeyOf
<1>3. <<KeyOf(r), Tier(path)>> \in Buckets
  BY <1>1, <1>2, TierTypes DEF Buckets
<1>4. Limit(Tier(path)) \in Nat
  BY <1>1, TierTypes, Limits
<1>5. ~call[r].counted /\ call[r].reply = "none" /\ \A q \in Requests : call[q].pc # "retry"
  BY DEF LimiterInv, Progress, IsLimited, LoopIsFree
<1> QED
  BY <1>3, <1>4, <1>5, TrimmedIsCounted DEF LimiterInv

\* A request takes a place of its window.
LEMMA AdmitKeeps ==
    ASSUME LimiterInv, TypeOK', NEW r \in Requests, NEW path \in Requested, Admit(r, path)
    PROVE  LimiterInv'
<1> DEFINE b == <<KeyOf(r), Tier(path)>>
<1>1. TypeOK /\ Progress /\ WindowsListRecent /\ WindowHolds /\ RefusedWhenFull /\ RetryAfterIsClose
  BY DEF LimiterInv
<1>2. IsLimited(r, path)
  BY DEF Admit
<1>3. /\ b \in Buckets
      /\ ~call[r].counted /\ call[r].reply = "none"
      /\ \A q \in Requests : call[q].pc # "retry"
      /\ Limit(Tier(path)) \in Nat
      /\ Trimmed(windows[b], now) = CountedIn(b, now)
  BY <1>2, LimitedBucket
<1>4. /\ Cardinality(CountedIn(b, now)) < Limit(Tier(path))
      /\ windows' = [windows EXCEPT ![b] = CountedIn(b, now) \cup {r}]
      /\ now' = now
  BY <1>3 DEF Admit
<1>5. /\ \A q \in Requests : q # r => call'[q] = call[q] /\ Bucket(q)' = Bucket(q)
      /\ call'[r].pc = "auth" /\ call'[r].at = now /\ call'[r].counted
      /\ call'[r].reply = "none" /\ call'[r].path = path /\ call'[r].key = KeyOf(r)
      /\ Bucket(r)' = b
  BY <1>1, <1>3 DEF Admit, TypeOK, Calls, Bucket
<1>6. now \in Nat /\ Ticks(Window) \in Nat /\ Ticks(Window) > 0
  BY <1>1, WindowTicks DEF TypeOK
<1> HIDE DEF b
<1>7. \A c, time : c # b \/ ~(now <= time) => CountedIn(c, time)' = CountedIn(c, time)
  BY <1>3, <1>5 DEF CountedIn
<1>8. ASSUME NEW c, NEW time, c = b, time = now
      PROVE  CountedIn(c, time)' = CountedIn(b, now) \cup {r}
  <2>1. CountedIn(c, time)'
          = {q \in Requests : /\ call'[q].counted
                              /\ Bucket(q)' = c
                              /\ call'[q].at <= time
                              /\ call'[q].at > time - Ticks(Window)}
    BY DEF CountedIn, Ticks
  <2>2. \A q \in Requests :
          ( /\ call'[q].counted
            /\ Bucket(q)' = b
            /\ call'[q].at <= now
            /\ call'[q].at > now - Ticks(Window) )
          <=> (q \in CountedIn(b, now) \/ q = r)
    BY <1>3, <1>5, <1>6 DEF CountedIn
  <2>3. CountedIn(b, now) \subseteq Requests
    BY DEF CountedIn
  <2> QED
    BY <1>8, <2>1, <2>2, <2>3
<1>9. Progress'
  BY <1>1, <1>3, <1>4, <1>5, <1>6 DEF Progress
<1>10. WindowsListRecent'
  <2>1. \A c \in Buckets : \A q \in windows'[c] : call'[q].counted /\ Bucket(q)' = c
    <3> SUFFICES ASSUME NEW c \in Buckets, NEW q \in windows'[c]
                 PROVE  call'[q].counted /\ Bucket(q)' = c
      OBVIOUS
    <3>1. (q = r /\ c = b) \/ q \in CountedIn(c, now) \/ q \in windows[c]
      BY <1>1, <1>3, <1>4 DEF TypeOK
    <3>2. CASE q = r /\ c = b
      BY <1>5, <3>2
    <3>3. CASE q \in CountedIn(c, now) \/ q \in windows[c]
      <4>1. q \in Requests /\ call[q].counted /\ Bucket(q) = c
        BY <1>1, <3>3 DEF CountedIn, WindowsListRecent, TypeOK
      <4> QED
        BY <1>3, <1>5, <4>1
    <3> QED
      BY <3>1, <3>2, <3>3
  <2>2. (\A q \in Requests :
           call[q].counted /\ call[q].at > now - Ticks(Window) => q \in windows[Bucket(q)])'
    <3> SUFFICES ASSUME NEW q \in Requests, call'[q].counted, call'[q].at > now - Ticks(Window)
                 PROVE  q \in windows'[Bucket(q)']
      BY <1>4 DEF Ticks
    <3>1. CASE q = r
      BY <1>1, <1>3, <1>4, <1>5, <3>1 DEF TypeOK
    <3>2. CASE q # r
      <4>1. call'[q] = call[q] /\ Bucket(q)' = Bucket(q)
        BY <1>5, <3>2
      <4>2. q \in windows[Bucket(q)] /\ call[q].at <= now
        BY <1>1, <4>1 DEF WindowsListRecent, Progress
      <4>3. CASE Bucket(q) = b
        <5>1. q \in CountedIn(b, now)
          BY <4>1, <4>2, <4>3 DEF CountedIn
        <5> QED
          BY <1>1, <1>3, <1>4, <4>1, <4>3, <5>1 DEF TypeOK
      <4>4. CASE Bucket(q) # b
        BY <1>1, <1>3, <1>4, <4>1, <4>2, <4>4 DEF TypeOK
      <4> QED
        BY <4>3, <4>4
    <3> QED
      BY <3>1, <3>2
  <2>3. \A q \in Requests : call'[q].pc # "retry"
    BY <1>3, <1>5
  <2> QED
    BY <2>1, <2>2, <2>3 DEF WindowsListRecent
<1>11. WindowHolds'
  <2> SUFFICES ASSUME NEW c \in Buckets, NEW time \in 0..now
               PROVE  Cardinality(CountedIn(c, time)') <= Limit(c[2])
    BY <1>4 DEF WindowHolds, Limit
  <2>1. CASE c # b \/ time # now
    <3>1. CountedIn(c, time)' = CountedIn(c, time)
      BY <1>6, <1>7, <2>1
    <3> QED
      BY <1>1, <3>1 DEF WindowHolds
  <2>2. CASE c = b /\ time = now
    <3>1. CountedIn(b, now) \in SUBSET Requests /\ r \notin CountedIn(b, now)
      BY <1>3 DEF CountedIn
    <3>2. IsFiniteSet(CountedIn(b, now)) /\ Cardinality(CountedIn(b, now)) \in Nat
      BY <3>1, CountedFinite
    <3>3. Cardinality(CountedIn(b, now) \cup {r}) = Cardinality(CountedIn(b, now)) + 1
      BY <3>1, <3>2, FS_AddElement
    <3>4. Limit(b[2]) = Limit(Tier(path))
      BY DEF b
    <3> QED
      <4>1. CountedIn(c, time)' = CountedIn(b, now) \cup {r}
        BY <1>8, <2>2
      <4>2. Cardinality(CountedIn(c, time)') = Cardinality(CountedIn(b, now)) + 1
        BY <3>3, <4>1
      <4>3. Cardinality(CountedIn(b, now)) + 1 <= Limit(Tier(path))
        BY <1>3, <1>4, <3>2
      <4> QED
        BY <2>2, <3>4, <4>2, <4>3
  <2> QED
    BY <2>1, <2>2
<1>12. ASSUME NEW q \in Requests, call'[q].pc = "retry" \/ call'[q].reply = "429"
       PROVE  /\ q # r /\ call[q].reply = "429"
              /\ call'[q] = call[q] /\ Bucket(q)' = Bucket(q)
              /\ CountedIn(Bucket(q), call[q].at)' = CountedIn(Bucket(q), call[q].at)
              /\ Cardinality(CountedIn(Bucket(q), call[q].at)) = Limit(Tier(call[q].path))
  <2>1. q # r /\ call[q].reply = "429" /\ call'[q] = call[q] /\ Bucket(q)' = Bucket(q)
    BY <1>3, <1>5, <1>12
  <2>2. Cardinality(CountedIn(Bucket(q), call[q].at)) = Limit(Tier(call[q].path))
    BY <1>1, <2>1 DEF RefusedWhenFull
  <2>3. call[q].at \in Nat /\ call[q].at <= now
    BY <1>1 DEF TypeOK, Calls, Progress
  <2>4. ~(Bucket(q) = b /\ call[q].at = now)
    <3> SUFFICES ASSUME Bucket(q) = b, call[q].at = now
                 PROVE  FALSE
      OBVIOUS
    <3>1. Tier(call[q].path) = Tier(path)
      BY DEF Bucket, b
    <3> QED
      BY <1>3, <1>4, <2>2, <3>1
  <2>5. CountedIn(Bucket(q), call[q].at)' = CountedIn(Bucket(q), call[q].at)
    BY <1>6, <1>7, <2>1, <2>3, <2>4
  <2> QED
    BY <2>1, <2>2, <2>5
<1>13. RefusedWhenFull'
  <2> SUFFICES ASSUME NEW q \in Requests, call'[q].pc = "retry" \/ call'[q].reply = "429"
               PROVE  (Cardinality(CountedIn(Bucket(q), call[q].at)) = Limit(Tier(call[q].path)))'
    BY DEF RefusedWhenFull
  <2> QED
    BY <1>12
<1>14. RetryAfterIsClose'
  <2> SUFFICES ASSUME NEW q \in Requests, call'[q].reply = "429"
               PROVE  Close(q)'
    BY DEF RetryAfterIsClose, Close
  <2>1. Close(q)
    BY <1>1, <1>12, CloseMeansClose
  <2>2. \A x \in CountedIn(Bucket(q), call[q].at) : call'[x].at = call[x].at
    BY <1>3, <1>5 DEF CountedIn
  <2> QED
    BY <1>12, <2>1, <2>2 DEF Close, Ticks
<1> QED
  BY <1>9, <1>10, <1>11, <1>13, <1>14 DEF LimiterInv

\* A request finds its window full.
LEMMA RefuseKeeps ==
    ASSUME LimiterInv, TypeOK', NEW r \in Requests, NEW path \in Requested, Refuse(r, path)
    PROVE  LimiterInv'
<1> DEFINE b == <<KeyOf(r), Tier(path)>>
<1>1. TypeOK /\ Progress /\ WindowsListRecent /\ WindowHolds /\ RefusedWhenFull /\ RetryAfterIsClose
  BY DEF LimiterInv
<1>2. IsLimited(r, path)
  BY DEF Refuse
<1>3. /\ b \in Buckets
      /\ ~call[r].counted /\ call[r].reply = "none"
      /\ \A q \in Requests : call[q].pc # "retry"
      /\ Limit(Tier(path)) \in Nat
      /\ Trimmed(windows[b], now) = CountedIn(b, now)
  BY <1>2, LimitedBucket
<1>4. /\ Cardinality(CountedIn(b, now)) >= Limit(Tier(path))
      /\ windows' = [windows EXCEPT ![b] = CountedIn(b, now)]
      /\ now' = now
  BY <1>3 DEF Refuse
<1>5. /\ \A q \in Requests : q # r => call'[q] = call[q] /\ Bucket(q)' = Bucket(q)
      /\ call'[r].pc = "retry" /\ call'[r].at = now /\ call'[r].counted = call[r].counted
      /\ call'[r].reply = "none" /\ call'[r].path = path
      /\ Bucket(r)' = b
  BY <1>1, <1>3 DEF Refuse, TypeOK, Calls, Bucket
<1>6. now \in Nat /\ b[2] = Tier(path)
  BY <1>1 DEF TypeOK
<1> HIDE DEF b
<1>7. \A c, time : CountedIn(c, time)' = CountedIn(c, time)
  BY <1>3, <1>5, CountedStays
<1>8. Cardinality(CountedIn(b, now)) = Limit(Tier(path))
  <2>1. CountedIn(b, now) \in SUBSET Requests
    BY DEF CountedIn
  <2>2. Cardinality(CountedIn(b, now)) \in Nat
    BY <2>1, CountedFinite
  <2>3. Cardinality(CountedIn(b, now)) <= Limit(Tier(path))
    BY <1>1, <1>3, <1>6 DEF WindowHolds
  <2> QED
    BY <1>3, <1>4, <2>2, <2>3
<1>9. Progress'
  BY <1>1, <1>3, <1>4, <1>5, <1>6 DEF Progress
<1>10. WindowsListRecent'
  <2>1. \A c \in Buckets : \A q \in windows'[c] : call'[q].counted /\ Bucket(q)' = c
    <3> SUFFICES ASSUME NEW c \in Buckets, NEW q \in windows'[c]
                 PROVE  call'[q].counted /\ Bucket(q)' = c
      OBVIOUS
    <3>1. q \in CountedIn(c, now) \/ q \in windows[c]
      BY <1>1, <1>3, <1>4 DEF TypeOK
    <3>2. q \in Requests /\ call[q].counted /\ Bucket(q) = c
      BY <1>1, <3>1 DEF CountedIn, WindowsListRecent, TypeOK
    <3> QED
      BY <1>3, <1>5, <3>2
  <2>2. (\A q \in Requests :
           call[q].counted /\ call[q].at > now - Ticks(Window) => q \in windows[Bucket(q)])'
    <3> SUFFICES ASSUME NEW q \in Requests, call'[q].counted, call'[q].at > now - Ticks(Window)
                 PROVE  q \in windows'[Bucket(q)']
      BY <1>4 DEF Ticks
    <3>1. q # r /\ call'[q] = call[q] /\ Bucket(q)' = Bucket(q)
      BY <1>3, <1>5
    <3>2. q \in windows[Bucket(q)] /\ call[q].at <= now
      BY <1>1, <3>1 DEF WindowsListRecent, Progress
    <3>3. CASE Bucket(q) = b
      <4>1. q \in CountedIn(b, now)
        BY <3>1, <3>2, <3>3 DEF CountedIn
      <4> QED
        BY <1>1, <1>3, <1>4, <3>1, <3>3, <4>1 DEF TypeOK
    <3>4. CASE Bucket(q) # b
      BY <1>1, <1>3, <1>4, <3>1, <3>2, <3>4 DEF TypeOK
    <3> QED
      BY <3>3, <3>4
  <2>3. (\A q \in Requests :
           call[q].pc = "retry" => windows[Bucket(q)] = CountedIn(Bucket(q), call[q].at))'
    <3> SUFFICES ASSUME NEW q \in Requests, call'[q].pc = "retry"
                 PROVE  (windows[Bucket(q)] = CountedIn(Bucket(q), call[q].at))'
      OBVIOUS
    <3>1. q = r
      BY <1>3, <1>5
    <3>2. windows'[b] = CountedIn(b, now)
      BY <1>1, <1>3, <1>4 DEF TypeOK
    <3> QED
      BY <1>5, <1>7, <3>1, <3>2
  <2> QED
    BY <2>1, <2>2, <2>3 DEF WindowsListRecent
<1>11. WindowHolds'
  BY <1>1, <1>4, <1>7 DEF WindowHolds, Limit
<1>12. RefusedWhenFull'
  <2> SUFFICES ASSUME NEW q \in Requests, call'[q].pc = "retry" \/ call'[q].reply = "429"
               PROVE  (Cardinality(CountedIn(Bucket(q), call[q].at)) = Limit(Tier(call[q].path)))'
    BY DEF RefusedWhenFull
  <2>1. CASE q = r
    BY <1>5, <1>7, <1>8, <2>1
  <2>2. CASE q # r
    <3>1. Cardinality(CountedIn(Bucket(q), call[q].at)) = Limit(Tier(call[q].path))
      BY <1>1, <1>5, <2>2 DEF RefusedWhenFull
    <3> QED
      BY <1>5, <1>7, <2>2, <3>1
  <2> QED
    BY <2>1, <2>2
<1>13. RetryAfterIsClose'
  <2> SUFFICES ASSUME NEW q \in Requests, call'[q].reply = "429"
               PROVE  Close(q)'
    BY DEF RetryAfterIsClose, Close
  <2>1. q # r /\ call'[q] = call[q] /\ Bucket(q)' = Bucket(q)
    BY <1>5
  <2>2. Close(q)
    BY <1>1, <2>1, CloseMeansClose
  <2>3. \A x \in CountedIn(Bucket(q), call[q].at) : call'[x].at = call[x].at
    BY <1>3, <1>5 DEF CountedIn
  <2> QED
    BY <1>7, <2>1, <2>2, <2>3 DEF Close, Ticks
<1> QED
  BY <1>9, <1>10, <1>11, <1>12, <1>13 DEF LimiterInv

\* A refused request is told when to try again.
LEMMA TellRetryAfterKeeps ==
    ASSUME LimiterInv, TypeOK', NEW r \in Requests, TellRetryAfter(r)
    PROVE  LimiterInv'
<1>1. TypeOK /\ Progress /\ WindowsListRecent
  BY DEF LimiterInv
<1>2. /\ call[r].pc = "retry" /\ UNCHANGED <<now, windows>>
      /\ \A q \in Requests : q # r => call'[q] = call[q]
      /\ call'[r] = [call[r] EXCEPT !.pc = "done", !.reply = "429", !.told = now,
                                    !.retryAfter = RetryAfter(windows[Bucket(r)], now)]
  BY <1>1 DEF TellRetryAfter, TypeOK
<1>3. /\ call'[r].pc = "done" /\ call'[r].reply = "429" /\ call'[r].told = now
      /\ call'[r].retryAfter = RetryAfter(windows[Bucket(r)], now)
      /\ call'[r].counted = call[r].counted /\ call'[r].at = call[r].at
      /\ call'[r].key = call[r].key /\ call'[r].path = call[r].path
  BY <1>1, <1>2 DEF TypeOK, Calls
<1> DEFINE W == CountedIn(Bucket(r), call[r].at)
<1>4. windows[Bucket(r)] = W /\ W \in SUBSET Requests
  BY <1>1, <1>2 DEF WindowsListRecent, CountedIn
<1>5. \A b, time : CountedIn(b, time)' = CountedIn(b, time)
  BY <1>2, <1>3, CountedStays DEF Bucket
<1>6. Bucket(r)' = Bucket(r) /\ \A q \in W : call'[q].at = call[q].at
  BY <1>2, <1>3, <1>4 DEF Bucket
<1>7. CountedIn(Bucket(r), call[r].at)' = W
  BY <1>3, <1>5, <1>6
<1>8. Close(r)'
  <2> HIDE DEF W
  <2> SUFFICES ASSUME W # {}
               PROVE  /\ \E q \in W : call[q].at + Ticks(Window) <= now + Ticks(call'[r].retryAfter + 1)
                      /\ call'[r].retryAfter > 1
                           => ~ \E q \in W : call[q].at + Ticks(Window)
                                               <= now + Ticks(call'[r].retryAfter) - 1
    BY <1>3, <1>6, <1>7 DEF Close, Ticks
  <2> QED
    BY <1>1, <1>3, <1>4, RetryAfterBounds
<1> QED
  BY <1>2, <1>3, <1>8, QuietKeeps

\* The steps of a request that the limiter has nothing to do with.
LEMMA OthersKeep ==
    ASSUME LimiterInv, TypeOK', NEW r \in Requests,
           \/ \E path \in Requested : PassLimiter(r, path)
           \/ SkipAuth(r)
           \/ Unauthorized(r)
           \/ \E key \in Keys : Authenticate(r, key)
           \/ Serve(r)
           \/ OpaHealth(r)
           \/ Evaluate(r)
    PROVE  LimiterInv'
<1>1. TypeOK /\ Progress
  BY DEF LimiterInv
<1> DEFINE Quiet ==
      /\ UNCHANGED <<now, windows>>
      /\ \A q \in Requests : q # r => call'[q] = call[q]
      /\ call'[r].counted = call[r].counted
      /\ call'[r].at = call[r].at
      /\ call'[r].key = call[r].key
      /\ call[r].pc = "unsent" \/ call'[r].path = call[r].path
      /\ call'[r].pc \in {"auth", "endpoint", "done"}
      /\ call'[r].pc = "done" <=> call'[r].reply # "none"
      /\ call'[r].reply # "429"
<1>2. call[r].pc # "done" => call[r].reply = "none"
  BY <1>1 DEF Progress
<1>3. ASSUME NEW path \in Requested, PassLimiter(r, path)
      PROVE  Quiet
  BY <1>1, <1>2, <1>3 DEF PassLimiter, TypeOK, Calls
<1>4. CASE SkipAuth(r)
  <2>1. Quiet
    BY <1>1, <1>2, <1>4 DEF SkipAuth, TypeOK, Calls
  <2> QED
    BY <2>1, QuietKeeps
<1>5. CASE Unauthorized(r)
  <2>1. Quiet
    BY <1>1, <1>2, <1>5 DEF Unauthorized, TypeOK, Calls
  <2> QED
    BY <2>1, QuietKeeps
<1>6. ASSUME NEW key \in Keys, Authenticate(r, key)
      PROVE  Quiet
  BY <1>1, <1>2, <1>6 DEF Authenticate, TypeOK, Calls
<1>7. ASSUME NEW code \in {"200", "500"}, Reply(r, code), call[r].pc = "endpoint"
      PROVE  Quiet
  BY <1>1, <1>7 DEF Reply, TypeOK, Calls
<1>8. CASE Serve(r) \/ OpaHealth(r)
  <2>1. Quiet
    BY <1>7, <1>8 DEF Serve, OpaHealth
  <2> QED
    BY <2>1, QuietKeeps
<1>9. CASE Evaluate(r)
  <2>1. Quiet
    BY <1>7, <1>9 DEF Evaluate, EvaluateInline, OpaAnswers, OpaUnreachable, OpaDrops, IsQuery
  <2> QED
    BY <2>1, QuietKeeps
<1>10. ASSUME NEW path \in Requested, PassLimiter(r, path)
       PROVE  LimiterInv'
  <2>1. Quiet
    BY <1>3, <1>10
  <2> QED
    BY <2>1, QuietKeeps
<1>11. ASSUME NEW key \in Keys, Authenticate(r, key)
       PROVE  LimiterInv'
  <2>1. Quiet
    BY <1>6, <1>11
  <2> QED
    BY <2>1, QuietKeeps
<1> QED
  BY <1>4, <1>5, <1>8, <1>9, <1>10, <1>11

\* A step of the gateway that changes nothing.
LEMMA StutterKeeps ==
    ASSUME LimiterInv, UNCHANGED vars
    PROVE  LimiterInv'
<1>1. UNCHANGED <<settings, now, windows, call, policy>>
  BY DEF vars
<1>2. TypeOK'
  BY <1>1 DEF LimiterInv, TypeOK
<1>3. Progress'
  BY <1>1 DEF LimiterInv, Progress
<1>4. WindowsListRecent'
  BY <1>1 DEF LimiterInv, WindowsListRecent, CountedIn, Bucket, Ticks
<1>5. WindowHolds'
  BY <1>1 DEF LimiterInv, WindowHolds, CountedIn, Bucket, Ticks, Limit
<1>6. RefusedWhenFull'
  BY <1>1 DEF LimiterInv, RefusedWhenFull, CountedIn, Bucket, Ticks, Limit
<1>7. RetryAfterIsClose'
  BY <1>1 DEF LimiterInv, RetryAfterIsClose, CountedIn, Bucket, Ticks
<1> QED
  BY <1>2, <1>3, <1>4, <1>5, <1>6, <1>7 DEF LimiterInv

\* At first nobody is counted.
LEMMA InitLimiter == Init => LimiterInv
<1> SUFFICES ASSUME Init PROVE LimiterInv
  OBVIOUS
<1>1. TypeOK
  BY InitTypes
<1>2. \A r \in Requests : call[r].pc = "unsent" /\ ~call[r].counted /\ call[r].reply = "none"
                          /\ call[r].at = 0
  BY DEF Init
<1>3. Progress
  BY <1>2 DEF Init, Progress
<1>4. WindowsListRecent
  BY <1>2 DEF Init, WindowsListRecent
<1>5. \A b, time : CountedIn(b, time) = {}
  BY <1>2 DEF CountedIn
<1>6. WindowHolds
  BY <1>5, Limits, FS_EmptySet DEF WindowHolds, Buckets
<1>7. RefusedWhenFull /\ RetryAfterIsClose
  BY <1>2 DEF RefusedWhenFull, RetryAfterIsClose
<1> QED
  BY <1>1, <1>3, <1>4, <1>6, <1>7 DEF LimiterInv

LEMMA NextLimiter == LimiterInv /\ [Next]_vars => LimiterInv'
<1> SUFFICES ASSUME LimiterInv, [Next]_vars PROVE LimiterInv'
  OBVIOUS
<1>1. TypeOK'
  BY NextTypes DEF LimiterInv
<1>2. CASE UNCHANGED vars
  BY <1>2, StutterKeeps
<1>3. CASE Tick
  BY <1>1, <1>3, TickKeeps
<1>4. CASE \E r \in Requests, path \in Requested : Admit(r, path)
  BY <1>1, <1>4, AdmitKeeps
<1>5. CASE \E r \in Requests, path \in Requested : Refuse(r, path)
  BY <1>1, <1>5, RefuseKeeps
<1>6. CASE \E r \in Requests : TellRetryAfter(r)
  BY <1>1, <1>6, TellRetryAfterKeeps
<1>7. CASE \E r \in Requests :
             \/ \E path \in Requested : PassLimiter(r, path)
             \/ SkipAuth(r)
             \/ Unauthorized(r)
             \/ \E key \in Keys : Authenticate(r, key)
             \/ Serve(r)
             \/ OpaHealth(r)
             \/ Evaluate(r)
  BY <1>1, <1>7, OthersKeep
<1> QED
  BY <1>2, <1>3, <1>4, <1>5, <1>6, <1>7 DEF Next

\* No window of the configured length, wherever it ends, ever holds more admitted
\* requests of a key and tier than the limit, and a request is refused only when
\* exactly the limit is used up at that moment, for every limit and length.
THEOREM WindowIsRight == Spec => []WindowIsExact
<1>1. LimiterInv => WindowIsExact
  BY DEF LimiterInv, WindowIsExact
<1> QED
  BY <1>1, InitLimiter, NextLimiter, PTL DEF Spec

\* The Retry-After of a refusal is within a second of when the first place of the
\* window is free, for every number of ticks per second and every delay between
\* is_allowed and retry_after.
THEOREM RetryAfterIsRight == Spec => []RetryAfterIsClose
<1>1. LimiterInv => RetryAfterIsClose
  BY DEF LimiterInv
<1> QED
  BY <1>1, InitLimiter, NextLimiter, PTL DEF Spec
=============================================================================
