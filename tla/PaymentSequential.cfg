SPECIFICATION LiveSpec
CONSTANTS
    Ops = {o1, o2}
    NoOp = NoOp
    Workers = {w1}
    Total = 2
    Requested = {1, 2}
    FailOnChannelFailure = TRUE
    MaxFaults = 1
INVARIANTS
    ClosedLeavesNothingWaiting
PROPERTIES
    ResolvedIsFinal
    
