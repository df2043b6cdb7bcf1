SPECIFICATION FairSpec
CONSTANTS
    Runners = {k1, k2}
    MaxFiles = 3
    Legacy = {1}
    NoTransaction = {2}
    MaxStatements = 2
    Once <- MCOnce
    MaxVersion = 2
    MaxFailures = 2
    NoRunner = NoRunner
    Texts <- MCTexts
INVARIANTS
    SentAsWritten
PROPERTIES
    JournalHolds
    MigrationsEnd
CHECK_DEADLOCK FALSE
