CONSTANTS
    c1 = c1
    c2 = c2
    r1 = r1
    r2 = r2
    f1 = f1
    f2 = f2
    n1 = n1
    NoNode = NoNode
    Facts = {f1, f2}
    Nodes = {n1}
    NodeOf <- MCNodeOf
    Shedding = TRUE
    Callers = {c1, c2}
    Reviewers = {r1, r2}
    Scans = {s1}
    MaxReports = 2
    MaxReviews = 2
SYMMETRY Interchangeable
SPECIFICATION Spec
CHECK_DEADLOCK FALSE
INVARIANTS
    TypeOK
    CountIsExactUnlessRaced
    AuditedIsQueued
    NodeDecisionIsAudited
    ReviewIsWholeUnlessDisturbed
