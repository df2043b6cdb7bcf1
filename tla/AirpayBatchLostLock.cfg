SPECIFICATION Spec
CONSTANTS
    MaxQuantity = 2
    MaxBatches = 3
    Renewable <- MCRenewable
    Lossy = {2}
    Handlers = {h1, h2}
    NoHandler = NoHandler
SYMMETRY Symmetry
INVARIANTS ReplacedIsUnpaid
CHECK_DEADLOCK FALSE
