CONSTANTS
    volatile = volatile
    usual = usual
    NotANode = NotANode
    s1 = s1
    s2 = s2
    Canonical = {usual}
    Nodes = {volatile, usual}
    Scale = 20
    Source <- MCSource
    Keep <- MCKeep
    LabelValues = {0, 20}
    Scanners = {s1, s2}
    MaxDays = 2
    MaxScans = 2
    MaxLabels = 3
    MaxReviews = 1
SYMMETRY Interchangeable
SPECIFICATION Spec
CHECK_DEADLOCK FALSE
INVARIANTS
    TypeOK
    OrderIsKept
    DecayHasFloor
PROPERTIES
    CurveIsIsotonic
