\* One handler at a time: the abstract machine is implemented.
SPECIFICATION Spec
CONSTANTS
    h1 = h1
    h2 = h2
    Procs = {h1}
    Gateways = {"YOCO", "OZOW", "PAYFAST"}
    AutoOrder <- YocoThenOzow
    PlanFallback = TRUE
    PlanManual = TRUE
    OzowVerifies = FALSE
    MaxAttempts = 3
INVARIANTS
    PaidAttemptSucceeded
PROPERTIES
    PromiseKept
    NoFailoverAfterHandoff
CHECK_DEADLOCK FALSE
