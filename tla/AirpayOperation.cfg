SPECIFICATION FairSpec
CONSTANTS
    Operations = {v, t}
    Topups = {t}
    Handlers = {h1, h2}
    Codes = {c1, c2}
    OldCodes = {c2}
    NoOperation = NoOperation
    NoCode = NoCode
    MaxOperations = 1
    MaxRecoveryAttempts = 4
INVARIANTS
    FailedIsDefinitive
    VerifiedRefusalHolds
    PaidIsTrue
    AttemptsAreBounded
PROPERTIES
    OperationsSettle
    OutcomeIsFinal
    OnlyStraysPayOnceDecided
    ImplementsContract
    EventsTell
    CutoverIsComplete
\* A finished operation leaves nothing to do.
CHECK_DEADLOCK FALSE
