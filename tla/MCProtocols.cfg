\* A peer without pong and reject and one with both.
CONSTANTS
    OwnVersion = 2
    MinimumVersion = 1
    PeerVersions = {1, 2}
    Bip31 = 2
    Bip61 = 2
    Nonces = {n1, n2}
    Self = FALSE
    HostPool = TRUE
SPECIFICATION FairSpec
INVARIANTS
    HonestPeerKept
PROPERTIES
    SilentPeerDropped
    ProtocolsEnd
CHECK_DEADLOCK FALSE
