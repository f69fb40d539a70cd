\* An outbound and an inbound slot, two addresses, under fairness.
CONSTANTS
    o1 = o1
    i1 = i1
    m1 = m1
    a = a
    b = b
    none = none
    Outbound = {o1}
    Inbound = {i1}
    Manual = {}
    Authority = {a, b}
    NoAuthority = none
    ConnectionLimit = 2
    ManualAttemptLimit = 0
SPECIFICATION FairSpec
INVARIANTS
    StoredIsReclaimed
    OutboundCyclesKept
    PendedWhileRegistering
PROPERTIES
    ImplementsRegistry
    Drains
    OutboundReplaced
CHECK_DEADLOCK FALSE
