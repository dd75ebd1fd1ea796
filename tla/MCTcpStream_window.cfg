\* The peer's buffer is not a multiple of the segment size.
CONSTANTS
    SeqMod = 16
    ISS = 14
    IRS = 15
    UIP_TCP_MSS = 2
    UIP_MAXRTX = 1
    MessageLen = 4
    PeerLen = 1
    PeerBuf = 3
    MayQuit = FALSE
    NetToPeer = 1
    NetToUip = 1
SPECIFICATION FairSpec
INVARIANT SentIsReceived
CHECK_DEADLOCK FALSE
