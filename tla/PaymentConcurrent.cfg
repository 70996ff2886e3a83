SPECIFICATION Spec
CONSTANTS
    Ops = {o1, o2}
    NoOp = NoOp
    Workers = {w1, w2}
    Total = 2
    Requested = {1}
    FailOnChannelFailure = FALSE
    MaxFaults = 0
SYMMETRY Symmetry
INVARIANTS
    NothingDeliveredUnpaid
PROPERTIES
    CaptureNeedsCover
