SPECIFICATION FairSpec
CONSTANTS
    Protos = {"p"}
    MaxSelect = 2
    MaxMsg = 1
    ChanSize = 1
    ServiceSize = 1
    SendBufferSize = 0
    KeepBuffer = TRUE
    Handles = TRUE
    Outbound = TRUE
    Priorities = {"normal"}
    MaxFaults = 2
    Faults = {"timeout", "end", "eof", "shut", "close", "muxer", "codec", "send", "lost", "select", "quick"}
CHECK_DEADLOCK FALSE
INVARIANTS StreamsKnownOncePerProtocol PendingCoversQueued IdleIsWaiting
PROPERTIES ClosedSessionEnds
