CONSTANTS
    r1 = r1
    r2 = r2
    r3 = r3
    r4 = r4
    h1 = h1
    h2 = h2
    tenantA = tenantA
    tenantB = tenantB
    k1 = k1
    k2 = k2
    k3 = k3
    Requests = {r1, r2, r3}
    Hosts = {h1, h2}
    Requested = {"/v1/opa/health", "/v1/queries", "/v1/snapshots/git", "/v1/audit-events/export"}
    Tenants = {tenantA}
    Keys = {k1, k3}
    NoTenant = NoTenant
    RawKeys <- MCOneTenant
    Window = 2
    TicksPerSecond = 2
    MaxPerMinute = 2
    IngestMax = 1
    ExportMax = 0
    Deployments <- MCDeployments
    QueryTopics <- MCQueryTopics
    OpaFields <- MCOpaFields
    MaxTime = 4
    MaxEvaluations = 1
SPECIFICATION Spec
SYMMETRY MCSymmetry
CHECK_DEADLOCK FALSE
INVARIANTS
    TypeOK
    WindowIsExact
    RetryAfterIsClose
    HeldToPolicy
