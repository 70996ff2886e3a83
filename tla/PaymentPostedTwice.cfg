SPECIFICATION Spec
CONSTANTS
    Ops = {o1}
    NoOp = NoOp
    Workers = {w1, w2}
    Total = 1
    Requested = {1}
    FailOnChannelFailure = FALSE
    MaxFaults = 0
SYMMETRY Symmetry
INVARIANTS
    PostedOnce
