\* p2p::stop() while the channel starts.
CONSTANTS
    handler = handler  other = other
    MessageHandlers = {handler}
    StopHandlers = {other}
    MaxReceived = 0
    MaxStops = 1
SPECIFICATION Spec
INVARIANT StoppedTakesNoHandlers
CHECK_DEADLOCK FALSE
