SPECIFICATION ReportingSpec
CONSTANTS
    i1 = i1
    c1 = c1
    c2 = c2
    Reports = {r1}
    Payments = {p1, p2}
    Instances = {i1}
    Calls = {c1, c2}
    InstanceOf <- OneProcess
    NoCall = NoCall
    NoInstance = NoInstance
    MaxDeliveries = 2
    MaxFailures = 1
    MaxCrashes = 1
    SetupCalls = {s1, s2}
    NoSetup = NoSetup
    MaxAccountChanges = 1
    h1 = h1
    h2 = h2
    b1 = b1
    EventHandlers = {h1, h2}
    Rebuilders = {b1}
    Digesters = {d1}
    BucketProcesses = {1, 2}
    ProcessOf <- MCProcesses
    BucketPayment <- MCPayments
    OldPayments = {"p0"}
    NoBucketCall = NoBucketCall
    MaxRows = 3
    ReportSellers = {"s1", "s2"}
    DigestedPayments <- MCSales
    CommissionRate = 20
    MaxDigested = 4
    BillingRuns = {x1, x2}
    Confirmers = {y1}
    BillingDays = {2}
    MaxDay = 2
    Digested <- MCDigested
    MaxBillingPayments = 2
INVARIANTS
    
    NeverCountedTwice
    OneQueryOfAKind
    OneCurrentReport
    ReportsAgree
    BilledIsInvoiced
PROPERTIES
    EventuallyReported
CHECK_DEADLOCK FALSE
