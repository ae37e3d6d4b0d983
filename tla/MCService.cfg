SPECIFICATION FairSpec
CONSTANTS
    Peers = {"p", "q"}
    NoPeer = "none"
    PeerOf <- MCPeerOf
    Answers <- MCAnswers
    Setups <- MCSetups
    SessionIds = 4
    MaxBinds = 1
    ChanSize = 1
CHECK_DEADLOCK FALSE
INVARIANTS CountIsExact OneSessionPerPeer DialEntriesCovered ListenersAreListed
PROPERTIES CloseEnds
