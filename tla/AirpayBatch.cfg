SPECIFICATION Spec
CONSTANTS
    MaxQuantity = 3
    MaxBatches = 3
    Renewable <- MCRenewable
    Lossy = {3}
    Handlers = {h1, h2}
    NoHandler = NoHandler
SYMMETRY Symmetry
INVARIANTS RemainderIsUnpaid PaysInOrder LinkedIsComplete
PROPERTIES BuysInSequence ImplementsOrder
CHECK_DEADLOCK FALSE
