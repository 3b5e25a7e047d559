\* Two overlapping callers, rolled back anywhere.
SPECIFICATION LedgerSpec
CONSTANTS
    w1 = w1
    w2 = w2
    withFee = withFee
    noFee = noFee
    Writers = {w1, w2}
    Payments = {withFee, noFee}
    Net <- NetOf
    Fee <- FeeOf
SYMMETRY Symmetry
INVARIANTS
    LedgerTypeOK
    AccountsBalance
    PostedPerWriter
    BalanceOnceTrue
CHECK_DEADLOCK FALSE
