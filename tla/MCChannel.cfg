\* A handler of each kind, one message, and a call of stop() beside that of
\* p2p::stop().
CONSTANTS
    handler = handler  other = other
    MessageHandlers = {handler}
    StopHandlers = {other}
    MaxReceived = 1
    MaxStops = 1
SPECIFICATION FairSpec
INVARIANTS
    StopIsFinal
    ToldOnce
    OpenIsWatched
    NoMessageMissed
PROPERTIES
    ChannelEnds
    EveryoneTold
CHECK_DEADLOCK FALSE
