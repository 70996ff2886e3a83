SPECIFICATION Spec
CONSTANTS
    Ops = {o1}
    NoOp = NoOp
    Workers = {w1}
    Total = 1
    Requested = {1}
    FailOnChannelFailure = TRUE
    MaxFaults = 0
SYMMETRY Symmetry
PROPERTIES
    CompletedNeverFails
