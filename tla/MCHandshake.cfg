\* A peer below the minimum, one below our version and one above it.
CONSTANTS
    OwnVersion = 2
    MinimumVersion = 1
    PeerVersions = {0, 1, 3}
SPECIFICATION FairSpec
INVARIANTS
    LateEventsIgnored
PROPERTIES
    ImplementsOpening
    HandshakeEnds
    FailureStops
CHECK_DEADLOCK FALSE
