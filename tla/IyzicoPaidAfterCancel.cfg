SPECIFICATION IyzicoSpec
CONSTANTS
    Callers = {c1, c2}
    CaptureDetails <- MCDetails
    ReturnUrls = {u1, u2}
    NoUrl = NoUrl
    MaxLostCalls = 0
    r1 = r1
    r2 = r2
    Refunds = {r1, r2}
    NumLines = 2
    Price <- MCPrice
    Nominal <- MCNominal
    RefundCallers = {d1, d2}
    MaxLostRefundCalls = 0
    MaxRedeliveries = 0
    Ensurers = {e1, e2}
    AccountSources <- MCSources
    MaxLostEnsures = 0
INVARIANTS
    PaidAfterCancelIsFlagged
CHECK_DEADLOCK FALSE
