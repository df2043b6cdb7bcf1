SPECIFICATION FairSpec
CONSTANTS
    Batches = {b1}
    Workers = {w1, w2}
    Actions = {"check", "pay"}
    NoBatch = NoBatch
    NoWorker = NoWorker
    Http = Http
    MaxJobs = 2
    MaxFailures = 2
INVARIANTS SensitiveRunsOnce CancelledNeverRuns WorkedAlone
PROPERTIES EndedIsFinal JobsEnd
CHECK_DEADLOCK FALSE
