SPECIFICATION Spec
CONSTANTS
    Purchases = {v}
    Topups = {}
    Workers = {w1, w2}
    Codes = {c1}
    OldCodes = {}
    NoWorker = NoWorker
    NoPurchase = NoPurchase
    NoCode = NoCode
    MaxPurchases = 1
    MaxStatusChecks = 2
    MaxPreflightAttempts = 1
    StatusOfUnpaid = {"processing"}
    Garbled = {v}
INVARIANTS
    FailedIsDefinitive
CHECK_DEADLOCK FALSE
