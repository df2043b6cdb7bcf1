SPECIFICATION FairSpec
CONSTANTS
    Runs = {r1, r2}
    Handlers = {h1, h2}
    MaxServices = 2
    MaxFailures = 2
    NoRun = NoRun
    NoHandler = NoHandler
INVARIANTS
    CheckedOnce
PROPERTIES
    ReportsStand
    RunsEnd
CHECK_DEADLOCK FALSE
