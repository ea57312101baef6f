CONSTANTS
    q1 = q1
    q2 = q2
    q3 = q3
    n1 = n1
    n2 = n2
    n3 = n3
    n4 = n4
    n5 = n5
    s1 = s1
    NoSection = NoSection
    Queries = {q1, q2, q3}
    Threads = {t1}
    Tasks = {j1}
    Nodes <- PackNodes
    Selected <- PackSelected
    BelongsTo <- PackEdges
    Section <- PackSection
    Chars <- PackChars
    Budgets <- PackBudgets
    CharBudget = 16
    MaxCompiles = 2
    MaxRetries = 0
    MaxCrashes = 1
SPECIFICATION FairSpec
CHECK_DEADLOCK FALSE
INVARIANTS
    ManifestsFitBudget
    PackedOnceSelectedFirst
PROPERTIES
    InvalidatedIsForgotten
