SPECIFICATION FairSpec
CONSTANTS
    Kinds = {"service", "session"}
    HandleSize = 1
    Setups <- MCSetups
    Inbound <- MCInbound
    ChanSize = 1
    SessionSize = 1
    SinkSize = 1
    SendEventSize = 1
    RecvEventSize = 1
    MaxFaults = 1
    Faults = {"eof", "bad", "reset", "shut", "stop", "encode", "drop", "panic", "notify"}
CHECK_DEADLOCK FALSE
INVARIANTS SentInOrder HandleSeesStreamInOrder IdleIsWaiting
PROPERTIES EndIsTold
