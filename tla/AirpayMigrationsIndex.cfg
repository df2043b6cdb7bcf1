SPECIFICATION Spec
CONSTANTS
    Runners = {k1, k2}
    MaxFiles = 3
    Legacy = {1}
    NoTransaction = {2}
    MaxStatements = 2
    Once = {}
    MaxVersion = 2
    MaxFailures = 2
    NoRunner = NoRunner
INVARIANTS
    MarkedIsWhole
CHECK_DEADLOCK FALSE
