\* The queues as the code names them: wiring.py:181 leaves the Celery default,
\* celery_app.py:13 consumes lattice_jit.
SPECIFICATION FairSpec
CONSTANTS
    a1 = a1
    a2 = a2
    w1 = w1
    w2 = w2
    Answers = {a1, a2}
    Workers = {w1}
    Modes = {"auto"}
    Schedulers = {"celery"}
    ApiQueue = "celery"
    WorkerQueue = "lattice_jit"
    MaxRetries = 1
    MaxLost = 1
    MaxDuplicates = 1
CHECK_DEADLOCK FALSE
PROPERTIES
    QueuedIsVerified
