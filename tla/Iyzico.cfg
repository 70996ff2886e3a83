SPECIFICATION IyzicoSpec
CONSTANTS
    Callers = {c1, c2}
    CaptureDetails <- MCDetails
    ReturnUrls = {u1}
    NoUrl = NoUrl
    MaxLostCalls = 1
    r1 = r1
    r2 = r2
    Refunds = {r1, r2}
    NumLines = 2
    Price <- MCPrice
    Nominal <- MCNominal
    RefundCallers = {d1, d2}
    MaxLostRefundCalls = 1
    MaxRedeliveries = 1
    Ensurers = {e1, e2}
    AccountSources <- MCSources
    MaxLostEnsures = 1
INVARIANTS
    CapturedIsPaid
    LineSentOnce
    NeverOverRefunded
    RoundingPostedOnce
    SettledIsPaidBack
    MerchantCreatedOnce
    RowMatchesProvider
PROPERTIES
    CheckoutImplementsChannel
    PaidIsRecorded
    RefundIsSettled
CHECK_DEADLOCK FALSE
