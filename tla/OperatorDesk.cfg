SPECIFICATION FairSpec
CONSTANTS
    Requests = {r1, r2, r3}
    Keys = {k1, k2}
    Purchases = {p1, p2}
    Topups = {}
    Codes = {c1, c2}
    Calls <- MCCalls
    NoCode = NoCode
    NoPurchase = NoPurchase
    k1 = k1
    k2 = k2
    p1 = p1
    p2 = p2
    c1 = c1
INVARIANTS ActionsMatchRows ShownIsAudited
PROPERTIES ImplementsDecisions RequestsEnd
CHECK_DEADLOCK FALSE
