SPECIFICATION Spec
CONSTANTS
    book = book
    pen = pen
    Requests = {r1, r2, r3}
    NoRequest = NoRequest
    Keys = {k1}
    NoKey = NoKey
    Workers = {w1, w2}
    NoWorker = NoWorker
    Items <- OneItem
    Quantity <- Pair
    MaxQuantity = 2
    Price <- OneItemPrice
    Seller <- OneItemSeller
    NumCaptures = 2
    Captured <- PairCaptures
    Amounts = {0, 1, 2, 3, 4, 5, 6}
    TimelyApprovals = TRUE
SYMMETRY Symmetry
INVARIANTS
    CapturesNotOverdrawn
    ApprovedIsCovered
    InitiatedNeverRejected
    LeaseIsExclusive
    QuantitiesConserved
PROPERTIES
    ImplementsLedger
CHECK_DEADLOCK FALSE
