\* One slot of each session, all for one address.
CONSTANTS
    o1 = o1
    i1 = i1
    m1 = m1
    a = a
    b = b
    none = none
    Outbound = {o1}
    Inbound = {i1}
    Manual = {m1}
    Authority = {a}
    NoAuthority = none
    ConnectionLimit = 1
    ManualAttemptLimit = 1
SPECIFICATION Spec
PROPERTY ManualMaintained
CHECK_DEADLOCK FALSE
