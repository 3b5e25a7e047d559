\* Two overlapping requests or runs of the script; two merchants with old secrets.
SPECIFICATION Spec
CONSTANTS
    p1 = p1
    p2 = p2
    m1 = m1
    m2 = m2
    old = old
    new = new
    Procs = {p1, p2}
    Merchants = {m1, m2}
    Gateways = {"PAYFAST", "OZOW", "YOCO", "PAYSTACK"}
    Accounts = {old, new}
    KeyMode <- SomeKeyMode
    Legacy <- SomeLegacy
    MaxConfigurations = 2
    MaxRuns = 2
SYMMETRY Symmetry
INVARIANTS
    ConnectionWhole
    ConnectedIsReady
    MigrationKeepsItsWord
CHECK_DEADLOCK FALSE
