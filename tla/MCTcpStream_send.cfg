\* A message of two segments; the peer's window is always full or closed.
CONSTANTS
    SeqMod = 16
    ISS = 14
    IRS = 15
    UIP_TCP_MSS = 2
    UIP_MAXRTX = 1
    MessageLen = 3
    PeerLen = 1
    PeerBuf = 2
    MayQuit = FALSE
    NetToPeer = 1
    NetToUip = 2
SPECIFICATION FairSpec
INVARIANT TypeOK
PROPERTIES OutgoingSpec IncomingSpec SendEnds
CHECK_DEADLOCK FALSE
