\* Two overlapping handlers: is a PAID payment left alone?
SPECIFICATION Spec
CONSTANTS
    h1 = h1
    h2 = h2
    Procs = {h1, h2}
    Gateways = {"YOCO", "PAYFAST"}
    AutoOrder <- JustYoco
    PlanFallback = TRUE
    PlanManual = TRUE
    OzowVerifies = FALSE
    MaxAttempts = 1
PROPERTY
    PaidIsFinal
CHECK_DEADLOCK FALSE
