\* One request, two workers, every scheduler and mode; the messages reach the
\* worker's queue.
SPECIFICATION FairSpec
CONSTANTS
    a1 = a1
    a2 = a2
    w1 = w1
    w2 = w2
    Answers = {a1}
    Workers = {w1, w2}
    Modes = {"auto", "off", "force"}
    Schedulers = {"inline", "noop", "celery"}
    ApiQueue = "lattice_jit"
    WorkerQueue = "lattice_jit"
    MaxRetries = 1
    MaxLost = 1
    MaxDuplicates = 2
CHECK_DEADLOCK FALSE
INVARIANTS
    TypeOK
    VerifiedOnce
    RowAgreesWithResponse
    HandedOver
    OneVerificationUnlessOverlap
PROPERTIES
    KeepsPromises
    QueuedIsVerified
