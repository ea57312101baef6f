CONSTANTS
    p1 = p1
    p2 = p2
    Paths = {p1, p2}
    Root = Root
    Trees <- MCTrees
    Threads = {t1}
    Workers = {w1}
    MaxRetries = 1
    MaxSnapshots = 1
    MaxSent = 1
    MaxLost = 1
    MaxDuplicates = 1
SPECIFICATION FairSpec
CHECK_DEADLOCK FALSE
INVARIANTS
    TypeOK
    CompletedIsWhole
    IngestedOnceUnlessRepeated
PROPERTIES
    SettledIsFrozen
    SentIsIngested
