\* A broadcast to two channels beside a message of a protocol on one of them.
CONSTANTS
    c1 = c1  c2 = c2  tx = tx  ping = ping
    Channel = {c1, c2}
    Message = {tx, ping}
    Broadcasts = {tx}
    Directs <- MCDirects
SPECIFICATION FairSpec
INVARIANTS
    CompletedLast
PROPERTIES
    ImplementsOutbox
    AllReported
    BroadcastCompletes
CHECK_DEADLOCK FALSE
