CONSTANTS
    r1 = r1
    r2 = r2
    r3 = r3
    r4 = r4
    h1 = h1
    h2 = h2
    tenantA = tenantA
    tenantB = tenantB
    k1 = k1
    k2 = k2
    k3 = k3
    Requests = {r1, r2}
    Hosts = {h1}
    Requested = {"/v1/queries"}
    Tenants = {tenantA, tenantB}
    Keys = {k1, k2}
    NoTenant = NoTenant
    RawKeys <- MCTwoTenants
    Window = 2
    TicksPerSecond = 2
    MaxPerMinute = 2
    IngestMax = 1
    ExportMax = 0
    Deployments <- MCDeployments
    QueryTopics <- MCQueryTopics
    OpaFields <- MCOpaFields
    MaxTime = 0
    MaxEvaluations = 1
SPECIFICATION Spec
CHECK_DEADLOCK FALSE
INVARIANTS
    WindowIsPerTenant
