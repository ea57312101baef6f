CONSTANTS
    q1 = q1
    q2 = q2
    q3 = q3
    n1 = n1
    n2 = n2
    n3 = n3
    n4 = n4
    n5 = n5
    s1 = s1
    NoSection = NoSection
    Queries = {q1}
    Threads = {t1, t2}
    Tasks = {j1}
    Nodes <- RaceNodes
    Selected <- RaceSelected
    BelongsTo <- RaceEdges
    Section <- RaceSection
    Chars <- RaceChars
    Budgets <- RaceBudgets
    CharBudget = 100
    MaxCompiles = 3
    MaxRetries = 0
    MaxCrashes = 0
SPECIFICATION Spec
CHECK_DEADLOCK FALSE
PROPERTIES
    ServedIsActive
