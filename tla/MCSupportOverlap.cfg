\* Two overlapping tasks; three messages of two customers to two merchants; a server that restarts and remembers one message.
SPECIFICATION Spec
CONSTANTS
    p1 = p1
    p2 = p2
    s1 = s1
    m1 = m1
    m2 = m2
    m3 = m3
    ann = ann
    bob = bob
    annsName = annsName
    bobsName = bobsName
    deskTitle = deskTitle
    shopA = shopA
    shopB = shopB
    Servers = {s1}
    Procs = {p1, p2}
    Incoming = {m1, m2, m3}
    Customers = {ann, bob}
    From <- SomeFrom
    Names = {annsName, bobsName}
    Contacts <- SomeContacts
    Merchants = {shopA, shopB}
    Desks = {shopA}
    MerchantOf <- SomeMerchants
    DeskTitle = deskTitle
    MemorySize = 1
    MaxConvs = 2
    MaxEscalations = 2
    MaxRestarts = 1
    MaxDeliveries = 2
SYMMETRY Symmetry
INVARIANTS
    StatusIsTruth
    OneEmailUnlessExcused
    RepliesPerLife
PROPERTIES
    FiledUnderOwnHeading
CHECK_DEADLOCK FALSE
