\* Two requests, two webhooks, or one of each overlap; two references, one key.
SPECIFICATION Spec
CONSTANTS
    c1 = c1
    c2 = c2
    h1 = h1
    h2 = h2
    k1 = k1
    r1 = r1
    r2 = r2
    Clients = {c1, c2}
    Hooks = {h1, h2}
    MaxServed = 2
    Keys = {k1}
    References = {r1, r2}
SYMMETRY Symmetry
INVARIANTS
    TypeOK
    ReplayAgrees
    SettledTruthfully
PROPERTY
    OrderlyUnlessOvertaken
CHECK_DEADLOCK FALSE
