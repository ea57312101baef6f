------------------------------ MODULE Gateway ------------------------------
(***************************************************************************)
(* The way of a request through the API: the rate limit middleware, the    *)
(* authentication middleware, the endpoint, and for a query the policy     *)
(* evaluation with its call of the OPA sidecar.  create_app adds the       *)
(* limiter last, so it is the outermost: it runs before authentication.    *)
(*                                                                         *)
(* The middlewares run on one event loop.  What the limiter does with a    *)
(* request, retry_after included, has no await in it, so no other request  *)
(* comes in between; but is_allowed and retry_after each read the clock.   *)
(* The clock counts ticks, TicksPerSecond of them a second, for retry      *)
(* times are truncated to seconds.                                         *)
(***************************************************************************)
EXTENDS Integers, Sequences, FiniteSets

CONSTANTS
    Requests,
    Hosts,           \* addresses of clients, "unknown" among them
    Requested,       \* the paths of requests
    Tenants,
    Keys,            \* values of the header X-API-Key
    NoTenant,        \* request.state has no tenant_id
    RawKeys,         \* the pairs of settings.auth_api_keys, in order; the
                     \* tenant of a pair is NoTenant if it is no UUID
    Window,          \* settings.rate_limit_window_seconds
    TicksPerSecond,
    MaxPerMinute,    \* settings.rate_limit_max_per_minute
    IngestMax,       \* settings.rate_limit_ingest_max_per_minute
    ExportMax,       \* settings.rate_limit_export_max_per_minute
    Deployments,     \* the settings a process may have
    QueryTopics,     \* the sets of topics a query may name
    OpaFields,       \* the sets of fields an OPA result may have
    MaxTime,         \* bound: ticks
    MaxEvaluations   \* bound: policy evaluations

Fields == {"query_class", "tool_allowlist", "redaction_rules", "max_tokens",
           "phase_b_required", "human_gate_required"}

Excluded == {"/healthz", "/v1/opa/health"}

Paths == Excluded \cup {"/v1/queries", "/v1/snapshots/git", "/v1/audit-events/export"}

Topics == {"compliance", "security", "cost"}

Settings == [rate_limit_enabled : BOOLEAN, auth_enabled : BOOLEAN,
             policy_mode : {"inline", "opa_http"}, fail_closed : BOOLEAN]

ASSUME LimitAssumption ==
    /\ Window \in Nat \ {0}
    /\ TicksPerSecond \in Nat \ {0}
    /\ MaxPerMinute \in Nat
    /\ IngestMax \in Nat
    /\ ExportMax \in Nat
    /\ MaxTime \in Nat
    /\ MaxEvaluations \in Nat

ASSUME NamesAssumption ==
    /\ IsFiniteSet(Requests)
    /\ Requested \subseteq Paths
    /\ NoTenant \notin Tenants
    /\ RawKeys \in Seq(Keys \X (Tenants \cup {NoTenant}))
    /\ Deployments \subseteq Settings
    /\ QueryTopics \subseteq SUBSET Topics
    /\ OpaFields \subseteq SUBSET Fields

VARIABLES
    settings,  \* the settings of this process, fixed when create_app runs
    now,       \* time.monotonic()
    windows,   \* RateLimiter._windows: a timestamp is the at of its request
    call,      \* the locals of each request and what it was answered
    policy     \* what each query was decided on

vars == <<settings, now, windows, call, policy>>

----------------------------------------------------------------------------
(***************************************************************************)
(* The rate limiter.                                                       *)
(***************************************************************************)
Tiers == {"ingest", "export", "query"}

Tier(path) ==
    CASE path = "/v1/snapshots/git"       -> "ingest"
      [] path = "/v1/audit-events/export" -> "export"
      [] OTHER                            -> "query"

Limit(tier) ==
    CASE tier = "ingest" -> IngestMax
      [] tier = "export" -> ExportMax
      [] OTHER           -> MaxPerMinute

\* What the middleware counts a request under.
KeyOf(r) == IF call[r].tenant # NoTenant THEN call[r].tenant ELSE call[r].host

Buckets == (Tenants \cup Hosts) \X Tiers

Bucket(r) == <<call[r].key, Tier(call[r].path)>>

Ticks(seconds) == seconds * TicksPerSecond

\* Mutant of Trimmed: a timestamp stays a moment too long.
TrimmedLate(timestamps, time) ==
    {q \in timestamps : call[q].at >= time - Ticks(Window)}

\* The timestamps that are in the window at the time.
Trimmed(timestamps, time) ==
    {q \in timestamps : call[q].at > time - Ticks(Window)}

Larger(a, b) == IF a > b THEN a ELSE b

Oldest(timestamps) ==
    CHOOSE t \in {call[q].at : q \in timestamps} : \A q \in timestamps : t <= call[q].at

\* Mutant of RetryAfter: the wait for the newest timestamp to leave.
RetryAfterNewest(timestamps, time) ==
    IF timestamps = {} THEN 1
    ELSE Larger(1, (Ticks(Window) - (time - (CHOOSE t \in {call[q].at : q \in timestamps} :
                                               \A q \in timestamps : t >= call[q].at)))
                     \div TicksPerSecond)

\* int() truncates to whole seconds, and what is below one second becomes one.
RetryAfter(timestamps, time) ==
    IF timestamps = {} THEN 1
    ELSE Larger(1, (Ticks(Window) - (time - Oldest(timestamps))) \div TicksPerSecond)

----------------------------------------------------------------------------
(***************************************************************************)
(* The policy.  A query is abstracted to the topics it names.              *)
(***************************************************************************)
Classes == Topics \cup {"general"}

Regulated == {"compliance", "security"}

Modes == {"auto", "off", "force"}

\* The first list of terms with a term in the query decides.
Classify(topics) ==
    CASE "compliance" \in topics -> "compliance"
      [] "compliance" \notin topics /\ "security" \in topics -> "security"
      [] topics = {"cost"} -> "cost"
      [] OTHER -> "general"

\* Mutant of Inline: the token limit follows phase_b_required, as in policy.rego.
InlineByPhaseB(topics, mode) ==
    LET class == Classify(topics)
        gated == class \in Regulated
        phase_b_required == mode = "force" \/ (mode = "auto" /\ gated)
    IN  [query_class         |-> class,
         tool_allowlist      |-> {"git_local"},
         redaction_rules     |-> IF gated THEN {"mask_identifiers"} ELSE {},
         max_tokens          |-> IF phase_b_required THEN 12000 ELSE 16000,
         phase_b_required    |-> phase_b_required,
         human_gate_required |-> gated]

\* PolicyEvaluator.evaluate.
Inline(topics, mode) ==
    LET class == Classify(topics)
        gated == class \in Regulated
    IN  [query_class         |-> class,
         tool_allowlist      |-> {"git_local"},
         redaction_rules     |-> IF gated THEN {"mask_identifiers"} ELSE {},
         max_tokens          |-> IF gated THEN 12000 ELSE 16000,
         phase_b_required    |-> mode = "force" \/ (mode = "auto" /\ gated),
         human_gate_required |-> gated]

\* The rules of policy.rego.  They do not look at input.phase_b_mode.
Rego(class) ==
    LET phase_b_required == class \in {"compliance", "security"}
        human_gate_required == class \in {"compliance", "security"}
    IN  [query_class         |-> class,
         tool_allowlist      |-> {"git_local"},
         redaction_rules     |-> IF human_gate_required THEN {"mask_identifiers"} ELSE {},
         max_tokens          |-> IF phase_b_required THEN 12000 ELSE 16000,
         phase_b_required    |-> phase_b_required,
         human_gate_required |-> human_gate_required]

\* Mutant of Combined: a missing number counts as 0.
CombinedWithZero(topics, mode, fields) ==
    LET fallback == Inline(topics, mode)
        result == Rego(fallback.query_class)
    IN  [f \in Fields |-> IF f \in fields THEN result[f]
                          ELSE IF f = "max_tokens" THEN 0 ELSE fallback[f]]

\* The bundle from a result that has these fields; the inline decision
\* supplies the others.
Combined(topics, mode, fields) ==
    LET fallback == Inline(topics, mode)
        result == Rego(fallback.query_class)
    IN  [f \in Fields |-> IF f \in fields THEN result[f] ELSE fallback[f]]

\* Whether QueryService.run schedules Phase B.
Schedules(bundle, mode) ==
    \/ mode # "off" /\ bundle.phase_b_required
    \/ mode = "force"

----------------------------------------------------------------------------
\* The tenant of a key in parse_api_keys: that of its last valid pair.
TenantOf(key) ==
    LET valid == {i \in DOMAIN RawKeys : RawKeys[i][1] = key /\ RawKeys[i][2] # NoTenant}
    IN  IF valid = {} THEN NoTenant
        ELSE RawKeys[CHOOSE i \in valid : \A j \in valid : j <= i][2]

Steps == {"unsent", "retry", "auth", "endpoint", "done"}

Replies == {"none", "200", "401", "429", "500"}

\* key: what it is counted under; at: when is_allowed read the clock; counted:
\* is_allowed appended a timestamp; told: when retry_after read the clock.
Calls == [pc : Steps, host : Hosts, path : Paths, tenant : Tenants \cup {NoTenant},
          key : Tenants \cup Hosts, at : Nat, counted : BOOLEAN, told : Nat,
          retryAfter : Nat, reply : Replies]

Bundles == [query_class : Classes, tool_allowlist : {{"git_local"}},
            redaction_rules : SUBSET {"mask_identifiers"}, max_tokens : {12000, 16000},
            phase_b_required : BOOLEAN, human_gate_required : BOOLEAN]

\* opa: "none" before there is a decision, "unused" in inline mode, "answered",
\* "unreachable" if the call raises an exception that evaluate catches,
\* "dropped" if it raises another one.
Decisions == [opa : {"none", "unused", "answered", "unreachable", "dropped"},
              topics : SUBSET Topics, mode : Modes, bundle : Bundles]

TypeOK ==
    /\ settings \in Deployments
    /\ now \in Nat
    /\ windows \in [Buckets -> SUBSET Requests]
    /\ call \in [Requests -> Calls]
    /\ policy \in [Requests -> Decisions]

Init ==
    /\ settings \in Deployments
    /\ now = 0
    /\ windows = [b \in Buckets |-> {}]
    /\ \E host \in [Requests -> Hosts] :
         call = [r \in Requests |->
                   [pc |-> "unsent", host |-> host[r], path |-> "/healthz",
                    tenant |-> NoTenant, key |-> host[r], at |-> 0, counted |-> FALSE,
                    told |-> 0, retryAfter |-> 0, reply |-> "none"]]
    /\ policy = [r \in Requests |-> [opa |-> "none", topics |-> {}, mode |-> "auto",
                                     bundle |-> Inline({}, "auto")]]

----------------------------------------------------------------------------
Tick ==
    /\ now < MaxTime
    /\ now' = now + 1
    /\ UNCHANGED <<settings, windows, call, policy>>

\* No request is between is_allowed and retry_after.
LoopIsFree == \A r \in Requests : call[r].pc # "retry"

(***************************************************************************)
(* The rate limit middleware.                                              *)
(***************************************************************************)
\* Health checks pass, and so does everything when the limiter is off.
PassLimiter(r, path) ==
    /\ call[r].pc = "unsent"
    /\ LoopIsFree
    /\ path \in Excluded \/ ~settings.rate_limit_enabled
    /\ call' = [call EXCEPT ![r] = [@ EXCEPT !.pc = "auth", !.path = path]]
    /\ UNCHANGED <<settings, now, windows, policy>>

IsLimited(r, path) ==
    /\ call[r].pc = "unsent"
    /\ LoopIsFree
    /\ path \notin Excluded
    /\ settings.rate_limit_enabled

\* is_allowed trims the window, and the request takes a place in it.
Admit(r, path) ==
    LET b == <<KeyOf(r), Tier(path)>>
        timestamps == Trimmed(windows[b], now)
    IN  /\ IsLimited(r, path)
        /\ Cardinality(timestamps) < Limit(Tier(path))
        /\ windows' = [windows EXCEPT ![b] = timestamps \cup {r}]
        /\ call' = [call EXCEPT ![r] = [@ EXCEPT !.pc = "auth", !.path = path, !.key = KeyOf(r),
                                          !.at = now, !.counted = TRUE]]
        /\ UNCHANGED <<settings, now, policy>>

\* is_allowed trims the window, and it is full.
Refuse(r, path) ==
    LET b == <<KeyOf(r), Tier(path)>>
        timestamps == Trimmed(windows[b], now)
    IN  /\ IsLimited(r, path)
        /\ Cardinality(timestamps) >= Limit(Tier(path))
        /\ windows' = [windows EXCEPT ![b] = timestamps]
        /\ call' = [call EXCEPT ![r] = [@ EXCEPT !.pc = "retry", !.path = path, !.key = KeyOf(r),
                                          !.at = now]]
        /\ UNCHANGED <<settings, now, policy>>

TellRetryAfter(r) ==
    /\ call[r].pc = "retry"
    /\ call' = [call EXCEPT ![r] = [@ EXCEPT !.pc = "done", !.reply = "429", !.told = now,
                                      !.retryAfter = RetryAfter(windows[Bucket(r)], now)]]
    /\ UNCHANGED <<settings, now, windows, policy>>

(***************************************************************************)
(* The authentication middleware.                                          *)
(***************************************************************************)
SkipAuth(r) ==
    /\ call[r].pc = "auth"
    /\ ~settings.auth_enabled \/ call[r].path \in Excluded
    /\ call' = [call EXCEPT ![r].pc = "endpoint"]
    /\ UNCHANGED <<settings, now, windows, policy>>

\* The header is missing, or no tenant has the key.
Unauthorized(r) ==
    /\ call[r].pc = "auth"
    /\ settings.auth_enabled
    /\ call[r].path \notin Excluded
    /\ call' = [call EXCEPT ![r] = [@ EXCEPT !.pc = "done", !.reply = "401"]]
    /\ UNCHANGED <<settings, now, windows, policy>>

Authenticate(r, key) ==
    /\ call[r].pc = "auth"
    /\ settings.auth_enabled
    /\ call[r].path \notin Excluded
    /\ TenantOf(key) # NoTenant
    /\ call' = [call EXCEPT ![r] = [@ EXCEPT !.pc = "endpoint", !.tenant = TenantOf(key)]]
    /\ UNCHANGED <<settings, now, windows, policy>>

(***************************************************************************)
(* The endpoints.  What a query does after its policy evaluation is the    *)
(* subject of QueryService.                                                *)
(***************************************************************************)
Reply(r, code) ==
    /\ call' = [call EXCEPT ![r] = [@ EXCEPT !.pc = "done", !.reply = code]]
    /\ UNCHANGED <<settings, now, windows>>

Serve(r) ==
    /\ call[r].pc = "endpoint"
    /\ call[r].path \notin {"/v1/queries", "/v1/opa/health"}
    /\ Reply(r, "200")
    /\ UNCHANGED policy

\* "healthy" or "degraded"; an exception health_check does not catch is a 500.
OpaHealth(r) ==
    /\ call[r].pc = "endpoint"
    /\ call[r].path = "/v1/opa/health"
    /\ \/ Reply(r, "200")
       \/ settings.policy_mode = "opa_http" /\ Reply(r, "500")
    /\ UNCHANGED policy

IsQuery(r) ==
    /\ call[r].pc = "endpoint"
    /\ call[r].path = "/v1/queries"
    /\ Cardinality({q \in Requests : policy[q].opa # "none"}) < MaxEvaluations

Decided(r, outcome, topics, mode, bundle) ==
    policy' = [policy EXCEPT ![r] = [opa |-> outcome, topics |-> topics, mode |-> mode,
                                     bundle |-> bundle]]

EvaluateInline(r, topics, mode) ==
    /\ IsQuery(r)
    /\ settings.policy_mode = "inline"
    /\ Decided(r, "unused", topics, mode, Inline(topics, mode))
    /\ Reply(r, "200")

OpaAnswers(r, topics, mode, fields) ==
    /\ IsQuery(r)
    /\ settings.policy_mode = "opa_http"
    /\ Decided(r, "answered", topics, mode, Combined(topics, mode, fields))
    /\ Reply(r, "200")

\* Whether evaluate raises when OPA is unreachable.
FailsClosed(topics) == settings.fail_closed /\ Classify(topics) \in Regulated

OpaUnreachable(r, topics, mode) ==
    /\ IsQuery(r)
    /\ settings.policy_mode = "opa_http"
    /\ Decided(r, "unreachable", topics, mode, Combined(topics, mode, {}))
    /\ Reply(r, IF FailsClosed(topics) THEN "500" ELSE "200")

\* The sidecar closes the connection before it has answered: urlopen raises
\* http.client.RemoteDisconnected, which is neither a URLError nor any other
\* of the exceptions evaluate catches.
OpaDrops(r, topics, mode) ==
    /\ IsQuery(r)
    /\ settings.policy_mode = "opa_http"
    /\ Decided(r, "dropped", topics, mode, Inline(topics, mode))
    /\ Reply(r, "500")

Evaluate(r) ==
    \E topics \in QueryTopics, mode \in Modes :
        \/ EvaluateInline(r, topics, mode)
        \/ \E fields \in OpaFields : OpaAnswers(r, topics, mode, fields)
        \/ OpaUnreachable(r, topics, mode)
        \/ OpaDrops(r, topics, mode)

Next ==
    \/ Tick
    \/ \E r \in Requests :
         \/ \E path \in Requested :
              \/ PassLimiter(r, path)
              \/ Admit(r, path)
              \/ Refuse(r, path)
         \/ TellRetryAfter(r)
         \/ SkipAuth(r)
         \/ Unauthorized(r)
         \/ \E key \in Keys : Authenticate(r, key)
         \/ Serve(r)
         \/ OpaHealth(r)
         \/ Evaluate(r)

Spec == Init /\ [][Next]_vars

----------------------------------------------------------------------------
(***************************************************************************)
(* Properties.                                                             *)
(***************************************************************************)
\* The requests counted in a bucket whose places are taken at a time.
CountedIn(b, time) ==
    {q \in Requests : /\ call[q].counted
                      /\ Bucket(q) = b
                      /\ call[q].at <= time
                      /\ call[q].at > time - Ticks(Window)}

\* No window of rate_limit_window_seconds, wherever it ends, holds more
\* admitted requests of a key and tier than the tier's limit: trimming the list
\* when a request comes (rate_limit.py:33) is enough to make the window slide.
WindowHolds ==
    \A b \in Buckets, time \in 0..now : Cardinality(CountedIn(b, time)) <= Limit(b[2])

\* A request is refused only when its key has used up the limit of its tier in
\* the window that ends now: refused requests take no place themselves, and
\* neither do other tiers or requests that left the window (rate_limit.py:35).
RefusedWhenFull ==
    \A r \in Requests :
        call[r].pc = "retry" \/ call[r].reply = "429"
            => Cardinality(CountedIn(Bucket(r), call[r].at)) = Limit(Tier(call[r].path))

\* The list of rate_limit.py:33-38 is the window exactly: it lets no request too
\* many through and turns none away early.
WindowIsExact == WindowHolds /\ RefusedWhenFull

\* Retry-After is close: a client that waits one second longer than it was told
\* finds a place freed that was taken when it was refused, and it was not told to
\* wait beyond that moment, or beyond a second.  Time may pass between
\* is_allowed and retry_after (rate_limit.py:32, :61).
RetryAfterIsClose ==
    \A r \in Requests :
        LET c == call[r]
            taken == CountedIn(Bucket(r), c.at)
            free(time) == \E q \in taken : call[q].at + Ticks(Window) <= time
        IN  c.reply = "429" /\ taken # {}
                => /\ free(c.told + Ticks(c.retryAfter + 1))
                   /\ c.retryAfter > 1 => ~free(c.told + Ticks(c.retryAfter) - 1)

\* What a query is decided on does not depend on OPA: with the shipped rules,
\* whatever part of them its answer has and whether or not it answers, a query
\* that is served gets the class, limits, redaction and human gate of the inline
\* policy, and Phase B runs for the same queries (service.py:82), although
\* policy.rego does not look at phase_b_mode.
OpaAgreesWithInline ==
    \A r \in Requests :
        LET d == policy[r]
            inline == Inline(d.topics, d.mode)
        IN  call[r].reply = "200"
                => /\ \A f \in Fields \ {"phase_b_required"} : d.bundle[f] = inline[f]
                   /\ Schedules(d.bundle, d.mode) = Schedules(inline, d.mode)

\* With fail_closed no query whose answer needs a human gate is served on a
\* decision that OPA did not take part in (docs/releases/v0.2.0.md:18): is_regulated
\* and the bundle's gate are computed in different places and must agree.
GatedNeedsOpa ==
    \A r \in Requests :
        LET d == policy[r] IN
        ( /\ call[r].reply = "200"
          /\ d.opa \in {"unreachable", "dropped"}
          /\ d.bundle.human_gate_required )
            => ~settings.fail_closed

\* A served query is held to the policy, however its decision was reached: what OPA
\* answers, or that it does not, changes nothing, and fail_closed is never passed by.
HeldToPolicy == OpaAgreesWithInline /\ GatedNeedsOpa

\* docs/releases/v0.3.0.md:26: "Per-tenant sliding window rate limiting".  The
\* authenticated requests that are counted together are of one tenant.
\* (Violated: the limiter runs before the tenant is known and counts hosts.)
WindowIsPerTenant ==
    \A q, r \in Requests :
        ( /\ call[q].counted /\ call[r].counted
          /\ Bucket(q) = Bucket(r)
          /\ call[q].tenant # NoTenant /\ call[r].tenant # NoTenant )
            => call[q].tenant = call[r].tenant
=============================================================================
