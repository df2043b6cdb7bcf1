SPECIFICATION Spec
CONSTANTS
    Batches = {b1}
    Workers = {w1}
    Actions = {"check", "pay"}
    NoBatch = NoBatch
    NoWorker = NoWorker
    Http = Http
    MaxJobs = 2
    MaxFailures = 0
INVARIANTS ConfirmedRun
CHECK_DEADLOCK FALSE
