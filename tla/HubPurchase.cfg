SPECIFICATION FairSpec
CONSTANTS
    Purchases = {v, t}
    Topups = {t}
    Workers = {w1, w2}
    Codes = {c1, c2}
    OldCodes = {c2}
    NoWorker = NoWorker
    NoPurchase = NoPurchase
    NoCode = NoCode
    MaxStatusChecks = 2
    MaxPurchases = 1
    MaxPreflightAttempts = 2
    StatusOfUnpaid = {"processing"}
    Garbled = {t}
INVARIANTS
    PaidOnceOnDisk
    FailedIsDefinitive
    SucceededIsTrue
    AttemptsAreBounded
    AttentionIsJustified
PROPERTIES
    PurchasesSettle
    ImplementsRows
    ImplementsContract
\* A settled purchase leaves nothing to do.
CHECK_DEADLOCK FALSE
