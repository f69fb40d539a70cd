\* A manual slot whose first channel fails to start.
CONSTANTS
    o1 = o1
    i1 = i1
    m1 = m1
    a = a
    b = b
    none = none
    Outbound = {}
    Inbound = {}
    Manual = {m1}
    Authority = {a}
    NoAuthority = none
    ConnectionLimit = 2
    ManualAttemptLimit = 0
SPECIFICATION Spec
INVARIANT FirstConnectionReported
CHECK_DEADLOCK FALSE
