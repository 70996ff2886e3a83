SPECIFICATION LiveSpec
CONSTANTS
    book = book
    pen = pen
    Requests = {r1, r2}
    NoRequest = NoRequest
    Keys = {k1}
    NoKey = NoKey
    Workers = {w1, w2}
    NoWorker = NoWorker
    Items <- OneItem
    Quantity <- Single
    MaxQuantity = 1
    Price <- OneItemPrice
    Seller <- OneItemSeller
    NumCaptures = 1
    Captured <- SingleCapture
    Amounts = {0, 3}
    TimelyApprovals = FALSE
INVARIANTS
    NeverSentTwice
PROPERTIES
    ResolutionIsFinal
    
    EveryCallReturns
CHECK_DEADLOCK FALSE
