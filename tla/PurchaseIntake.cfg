SPECIFICATION FairSpec
CONSTANTS
    Requests = {r1, r2, r3}
    Keys = {k1, k2}
    Orders = {o1, o2, t1}
    Topups = {t1}
    Calls <- MCCalls
    NoRequest = NoRequest
    k1 = k1
    k2 = k2
    o1 = o1
    o2 = o2
    t1 = t1
PROPERTIES ImplementsOrderBook RequestsEnd
CHECK_DEADLOCK FALSE
