\* Two overlapping requests or cycles; one key; three bodies; a subscription.
SPECIFICATION Spec
CONSTANTS
    p1 = p1
    p2 = p2
    k1 = k1
    named = named
    unnamed = unnamed
    intent = intent
    r1 = r1
    Procs = {p1, p2}
    Keys = {k1}
    Bodies = {named, unnamed, intent}
    Scope <- SomeScope
    Reference <- SomeReference
    Gateway <- SomeGateway
    Amount <- SomeAmount
    Merchants <- SomeMerchants
    PlanFee <- SomePlanFee
    PlatformFee <- SomePlatformFee
    Offers <- SomeOffers
    MaxRows = 3
SYMMETRY Symmetry
INVARIANTS
    PaymentsDistinct
    ReplaysAreWhole
    FeesRoundFairly
    EachPeriodBilled
CHECK_DEADLOCK FALSE
