\* Two instances race on one delivery, a fault and a retry by hand between: the
\* numbers stay gapless, nothing is given up early, and the delivery is settled.
SPECIFICATION FairSpec
CONSTANTS
    i1 = i1
    i2 = i2
    c1 = c1
    c2 = c2
    d1 = d1
    d2 = d2
    Instances = {i1, i2}
    Cycles = {c1, c2}
    Deliveries = {d1}
    BatchSize = 2
    Concurrency = 2
    MaxAttempts = 3
    MaxRetries = 1
    MaxFaults = 1
INVARIANTS
    AttemptNumbersSound
    NotAbandonedEarly
PROPERTY
    Settled
CHECK_DEADLOCK FALSE
