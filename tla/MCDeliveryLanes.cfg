\* One instance, two lanes: a lane throws and a second run overtakes the first.
SPECIFICATION Spec
CONSTANTS
    i1 = i1
    i2 = i2
    c1 = c1
    c2 = c2
    d1 = d1
    d2 = d2
    Instances = {i1}
    Cycles = {c1, c2}
    Deliveries = {d1, d2}
    BatchSize = 2
    Concurrency = 2
    MaxAttempts = 2
    MaxRetries = 1
    MaxFaults = 2
SYMMETRY Symmetry
INVARIANTS
    TypeOK
    SuccessWasAccepted
    SoleSender
CHECK_DEADLOCK FALSE
