\* Two handlers overlap on one payment; Ozow notifications are verified by a lookup, AUTO can fail over.
SPECIFICATION Spec
CONSTANTS
    h1 = h1
    h2 = h2
    Procs = {h1, h2}
    Gateways = {"OZOW", "PAYSTACK"}
    AutoOrder <- PaystackThenOzow
    PlanFallback = TRUE
    PlanManual = FALSE
    OzowVerifies = TRUE
    MaxAttempts = 2
SYMMETRY Symmetry
INVARIANTS
    PaidOnlyIfFunded
    EventAppliedOnce
PROPERTY
    OrderlyUnlessOvertaken
CHECK_DEADLOCK FALSE
