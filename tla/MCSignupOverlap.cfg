\* Two overlapping handlers, two payments: a signup marked as fulfilled is ready.
SPECIFICATION Spec
CONSTANTS
    h1 = h1
    h2 = h2
    s1 = s1
    s2 = s2
    Procs = {h1, h2}
    Payments = {s1, s2}
    MaxKeys = 3
SYMMETRY Symmetry
INVARIANTS
    TypeOK
    CompletedMeansReady
    KeysPerHandler
PROPERTY
    SignupRemembered
CHECK_DEADLOCK FALSE
